---- MODULE Spec2Model ----
(***************************************************************************)
(* Request dispatch of the proxy's TransactionProcessor                    *)
(* (src/process/validatorStatisticsProcessorAuction.go, lines 34-339), of  *)
(* the auction list fetch (lines 8-32) and of the outcome parser.          *)
(*                                                                         *)
(* One request is followed from its entry point to its return.  Every      *)
(* call of CallPostRestEndPoint is one step: the observer's reply          *)
(* (respCode, err, decoded body) is chosen by the environment.  The        *)
(* Processor capabilities the code is handed (GetObservers,                *)
(* GetAllObservers, ComputeShardId, the pubkey converter) are inputs too.  *)
(* Strings that the code parses are sequences of one-character strings.    *)
(***************************************************************************)
EXTENDS Integers, Sequences, FiniteSets, TLC

VARIABLES
    pc,            \* "idle" | "loop" | "shards" | "done": position of the request
    op,            \* entry point of the request
    tx,            \* argument of SendTransaction / TransactionCostRequest
    txs,           \* argument of SendMultipleTransactions
    shardId,       \* shard whose observers are being iterated
    observers,     \* the observer list being iterated
    idx,           \* index in observers of the next observer to contact
    lookups,       \* every GetObservers made so far, in order, with its answer
    calls,         \* every call of a REST end point made so far, in order
    txsByShardId,  \* SendMultipleTransactions: the batch of every sender shard
    pendingShards, \* SendMultipleTransactions: shards the range loop has not visited
    totalTxsSent,  \* SendMultipleTransactions: the running total
    txHash,        \* argument of GetTransactionStatus
    observersResponses, \* GetTransactionStatus: the statuses collected per shard
    allowEntireTxPoolFetch, \* the processor's mempool flag, set at construction
    poolTxs,       \* GetTransactionsPool: the pool view gathered so far
    valStatsResponse, \* getAuctionListFromApi: the response every call decodes into
    txResult,      \* argument of ParseResultOutcome
    simulation,    \* SimulateTransaction: the request to each shard and its result
    request,       \* the request given to a handler of the API
    txResponses,   \* concurrent requests: the response each call decodes into
    running,       \* concurrent requests: the local state of each request
    ret            \* the returned values, meaningful when pc = "done"

vars == <<pc, op, tx, txs, shardId, observers, idx, lookups, calls,
          txsByShardId, pendingShards, totalTxsSent, txHash,
          observersResponses, allowEntireTxPoolFetch, poolTxs,
          valStatsResponse, txResult, simulation, request, txResponses,
          running, ret>>

\* the variables of the mempool views, the auction list and the outcome
\* parser
extraVars == <<allowEntireTxPoolFetch, poolTxs, valStatsResponse, txResult,
              simulation, request, txResponses, running>>

-----------------------------------------------------------------------------
(* Bounds of the model *)

MaxObservers == 2      \* longest list GetObservers returns
MaxTxs == 2            \* longest batch given to SendMultipleTransactions
NumberOfShards == 2    \* regular shards 0 .. NumberOfShards-1
CostBits == 4          \* width of TxCost and of int, scaled down from 64
MaxScResults == 2      \* most smart-contract results in one observer's reply
MaxEvents == 2         \* most events in the logs of a transaction result

(* Program constants *)

StatusOK == 200
StatusBadRequest == 400
StatusNotFound == 404
StatusRequestTimeout == 408
StatusInternalServerError == 500
\* core.MetachainShardId is 0xFFFFFFFF; scaled to 8 bits to stay inside
\* the model checker's integers. Only equality with it is ever used.
MetachainShardId == 255

TransactionSendPath == "/transaction/send"
MultipleTransactionsPath == "/transaction/send-multiple"
TransactionCostPath == "/transaction/cost"
TransactionPath == "/transaction/"
UnknownStatusTx == "unknown"
auctionListPath == "/validator/auction"
TransactionSimulatePath == "/transaction/simulate"

(* Errors. Nil is Go's nil error. *)
Nil == "nil"
ErrSendingRequest == "ErrSendingRequest"
ErrNoValidTransactionToSend == "ErrNoValidTransactionToSend"
ErrMissingObserver == "ErrMissingObserver"
ErrInvalidSenderAddress == "ErrInvalidTxFields: invalid sender address"
ErrInvalidReceiverAddress == "ErrInvalidTxFields: invalid receiver address"
ErrInvalidSignatureHex == "ErrInvalidTxFields: invalid signature hex"
ErrDecode == "pubKeyConverter.Decode error"
ErrComputeShardId == "ComputeShardId error"
ErrGetObservers == "GetObservers error"
ErrUpstream == "CallPostRestEndPoint error"
ErrCannotGetTransactionStatus == "ErrCannotGetTransactionStatus"
ErrGetUpstream == "CallGetRestEndPoint error"
ErrOperationNotAllowed == "ErrOperationNotAllowed"
ErrAuctionListNotAvailable == "ErrAuctionListNotAvailable"
ErrInvalidAppContext == "ErrInvalidAppContext"
ErrGetValueForKey == "ErrGetValueForKey"
ErrEmptyAddress == "ErrEmptyAddress"
ErrEmptyKey == "ErrEmptyKey"
ErrFacade == "facade error"
ErrTransactionsNotFoundInPool == "ErrTransactionsNotFoundInPool"
ErrNonceGapsNotFoundInPool == "ErrNonceGapsNotFoundInPool"

InvalidTxFieldsErrors ==
    {ErrInvalidSenderAddress, ErrInvalidReceiverAddress, ErrInvalidSignatureHex}

-----------------------------------------------------------------------------
(* encoding/hex *)

HexChars ==
    {"0","1","2","3","4","5","6","7","8","9",
     "a","b","c","d","e","f","A","B","C","D","E","F"}

HexValue(c) ==
    CASE c = "0" -> 0  [] c = "1" -> 1  [] c = "2" -> 2  [] c = "3" -> 3
      [] c = "4" -> 4  [] c = "5" -> 5  [] c = "6" -> 6  [] c = "7" -> 7
      [] c = "8" -> 8  [] c = "9" -> 9
      [] c \in {"a","A"} -> 10 [] c \in {"b","B"} -> 11
      [] c \in {"c","C"} -> 12 [] c \in {"d","D"} -> 13
      [] c \in {"e","E"} -> 14 [] c \in {"f","F"} -> 15

\* hex.DecodeString: an error for an odd length or a character that is no
\* hex digit, else one byte per pair of digits.
HexDecodeString(s) ==
    IF Len(s) % 2 = 1 \/ \E i \in 1..Len(s) : s[i] \notin HexChars
    THEN [ok |-> FALSE, bytes |-> <<>>]
    ELSE [ok |-> TRUE,
          bytes |-> [i \in 1..(Len(s) \div 2) |->
                        16 * HexValue(s[2*i - 1]) + HexValue(s[2*i])]]

\* The injected pubkey converter; the repository's tests inject a converter
\* that hex-decodes the address.
Decode(address) == HexDecodeString(address)

-----------------------------------------------------------------------------
(* Shard router (Processor.ComputeShardId) *)

RECURSIVE Pow2(_)
Pow2(n) == IF n = 0 THEN 1 ELSE 2 * Pow2(n - 1)

\* least n with 2^n >= NumberOfShards
ShardBits == CHOOSE n \in 0..8 :
    /\ Pow2(n) >= NumberOfShards
    /\ \A m \in 0..8 : Pow2(m) >= NumberOfShards => n <= m

\* The last bits of the address select the shard; an address of the wrong
\* length is refused.
ComputeShardId(addressBuff) ==
    IF Len(addressBuff) # 1    \* addresses of the model are one byte long
    THEN [ok |-> FALSE, shard |-> 0]
    ELSE LET last == addressBuff[Len(addressBuff)]
             high == last % Pow2(ShardBits)
         IN  [ok |-> TRUE,
              shard |-> IF high > NumberOfShards - 1
                        THEN last % Pow2(ShardBits - 1)
                        ELSE high]

ShardIDs == (0..(NumberOfShards - 1)) \cup {MetachainShardId}

-----------------------------------------------------------------------------
(* Observer pool (Processor.GetObservers, Processor.GetAllObservers) *)

\* data.NodeData: the i-th observer configured for a shard
Observer(shard, i) == [Address |-> <<"observer", shard, i>>, ShardId |-> shard]

\* What GetObservers(shard) may answer: an error, or the first n observers
\* of the shard (n may be 0).
GetObserversResults(shard) ==
    {[err |-> ErrGetObservers, observers |-> <<>>]} \cup
    {[err |-> Nil, observers |-> [i \in 1..n |-> Observer(shard, i)]] :
        n \in 0..MaxObservers}

\* What GetAllObservers() may answer: observers of distinct shards in any
\* order, the metachain included.
AllObserversResults ==
    {l \in UNION {[1..n -> {Observer(s, 1) : s \in ShardIDs}] :
                    n \in 0..Cardinality(ShardIDs)} :
        \A i, j \in DOMAIN l : i # j => l[i] # l[j]}

-----------------------------------------------------------------------------
(* data.Transaction *)

SenderStrings == {<<"0","0">>, <<"0","1">>, <<>>, <<"z","z">>}
ReceiverStrings == {<<"0","0">>, <<"0">>}
SignatureStrings == {<<"a","b">>, <<"a","g">>}
ChainIDStrings == {"1", ""}
Versions == {1, 0}
ValueStrings == {<<"1","0">>, <<"-","1">>}

Transactions ==
    [Sender : SenderStrings, Receiver : ReceiverStrings,
     Signature : SignatureStrings, ChainID : ChainIDStrings,
     Version : Versions, Value : ValueStrings]

NoTx == [Sender |-> <<>>, Receiver |-> <<>>, Signature |-> <<>>,
         ChainID |-> "", Version |-> 0, Value |-> <<>>]

\* checkTransactionFields without its signature check
checkTransactionFieldsNoSignature(t) ==
    IF ~Decode(t.Sender).ok THEN ErrInvalidSenderAddress
    ELSE IF ~Decode(t.Receiver).ok THEN ErrInvalidReceiverAddress
    ELSE Nil

\* checkTransactionFields: the first field that does not decode decides
\* the error.
checkTransactionFields(t) ==
    IF ~Decode(t.Sender).ok THEN ErrInvalidSenderAddress
    ELSE IF ~Decode(t.Receiver).ok THEN ErrInvalidReceiverAddress
    ELSE IF ~HexDecodeString(t.Signature).ok THEN ErrInvalidSignatureHex
    ELSE Nil

-----------------------------------------------------------------------------
(* Replies of an observer to CallPostRestEndPoint *)

Hashes == {"HASH1", "HASH2"}
RespCodes == {StatusOK, StatusBadRequest, StatusNotFound,
              StatusRequestTimeout, StatusInternalServerError}

\* data.ResponseTransaction: a hash is decoded only from a good reply
SendReplies ==
    {[code |-> StatusOK, err |-> Nil, hash |-> h] : h \in Hashes} \cup
    {r \in [code : RespCodes, err : {Nil, ErrUpstream}, hash : {""}] :
        ~(r.code = StatusOK /\ r.err = Nil)}

TxCosts == {0, Pow2(CostBits - 1) - 1, Pow2(CostBits - 1), Pow2(CostBits) - 1}

\* data.ResponseTxCost
CostReplies ==
    {[code |-> StatusOK, err |-> Nil, txCost |-> c] : c \in TxCosts} \cup
    {r \in [code : RespCodes, err : {Nil, ErrUpstream}, txCost : {0}] :
        ~(r.code = StatusOK /\ r.err = Nil)}

-----------------------------------------------------------------------------
(* strconv.Itoa(int(x)) *)

\* int(x) for an unsigned x of CostBits bits: two's complement
ToInt(x) == IF x >= Pow2(CostBits - 1) THEN x - Pow2(CostBits) ELSE x

DigitChar(d) ==
    CASE d = 0 -> "0" [] d = 1 -> "1" [] d = 2 -> "2" [] d = 3 -> "3"
      [] d = 4 -> "4" [] d = 5 -> "5" [] d = 6 -> "6" [] d = 7 -> "7"
      [] d = 8 -> "8" [] d = 9 -> "9"

RECURSIVE Digits(_)
Digits(n) == IF n < 10 THEN <<DigitChar(n)>>
             ELSE Append(Digits(n \div 10), DigitChar(n % 10))

Itoa(n) == IF n < 0 THEN <<"-">> \o Digits(-n) ELSE Digits(n)

-----------------------------------------------------------------------------
(* Requests that run at the same time *)

\* the two calls that run on one TransactionProcessor
RequestIds == {"A", "B"}

\* the local state of a call that was not made yet
IdleRequest ==
    [pc |-> "idle", tx |-> NoTx, observers |-> <<>>, idx |-> 1,
     lookups |-> <<>>, calls |-> <<>>, overlapped |-> FALSE,
     ret |-> [status |-> 0, hash |-> "", err |-> Nil]]

-----------------------------------------------------------------------------
(* The state after construction: no request is running *)

NoRequest ==
    /\ pc = "idle"
    /\ op = "none"
    /\ tx = NoTx
    /\ txs = <<>>
    /\ shardId = 0
    /\ observers = <<>>
    /\ idx = 1
    /\ lookups = <<>>
    /\ calls = <<>>
    /\ txsByShardId = <<>>
    /\ pendingShards = {}
    /\ totalTxsSent = 0
    /\ txHash = ""
    /\ observersResponses = <<>>
    /\ poolTxs = [regular |-> <<>>, scrs |-> <<>>, rewards |-> <<>>]
    /\ valStatsResponse = <<>>
    /\ txResult = <<>>
    /\ simulation = <<>>
    /\ request = <<>>
    /\ txResponses = [id \in RequestIds |-> ""]
    /\ running = [id \in RequestIds |-> IdleRequest]
    /\ ret = [status |-> 0, hash |-> "", err |-> Nil]

\* the processors of the repository's tests are built with the mempool
\* flag set
Init == NoRequest /\ allowEntireTxPoolFetch = TRUE

\* pc and ret of a request that returns r
Return(r) == pc' = "done" /\ ret' = r

-----------------------------------------------------------------------------
(* SendTransaction *)

\* the shard of the receiver taken for the shard of the sender
ReceiverShard(t) == ComputeShardId(Decode(t.Receiver).bytes)

\* lines 107-115: the shard of the transaction's sender
SenderShard(t) == ComputeShardId(Decode(t.Sender).bytes)

\* the list walked from its end
ObserverAtReversed(list, i) == list[Len(list) - i + 1]

\* line 122: the observer the loop's i-th iteration posts to
ObserverAt(list, i) == list[i]

\* a good reply does not end the loop
SendVerdictOkNotFinal(reply) ==
    IF reply.code = StatusNotFound \/ reply.code = StatusRequestTimeout
       \/ (reply.code = StatusOK /\ reply.err = Nil)
    THEN "skip"
    ELSE "fail"

\* a timeout is not taken for an observer that is down
SendVerdictTimeoutFails(reply) ==
    IF reply.code = StatusOK /\ reply.err = Nil THEN "success"
    ELSE IF reply.code = StatusNotFound THEN "skip"
         ELSE "fail"

\* a server error is taken for an observer that is down
SendVerdictServerErrorSkipped(reply) ==
    IF reply.code = StatusOK /\ reply.err = Nil THEN "success"
    ELSE IF reply.code \in {StatusNotFound, StatusRequestTimeout,
                            StatusInternalServerError}
         THEN "skip"
         ELSE "fail"

\* lines 126-142: what the loop does with a reply
SendVerdict(reply) ==
    IF reply.code = StatusOK /\ reply.err = Nil THEN "success"
    ELSE IF reply.code = StatusNotFound \/ reply.code = StatusRequestTimeout
         THEN "skip"
         ELSE "fail"

\* the exhausted loop answers with the status of an observer that is down
SendExhaustedNotFound ==
    [status |-> StatusNotFound, hash |-> "", err |-> ErrSendingRequest]

\* line 145: every observer was skipped
SendExhausted ==
    [status |-> StatusInternalServerError, hash |-> "", err |-> ErrSendingRequest]

\* lines 101-120 and the entry of the loop
SendTransaction(t) ==
    /\ pc = "idle"
    /\ op' = "SendTransaction"
    /\ tx' = t
    /\ UNCHANGED extraVars
    /\ UNCHANGED <<txHash, observersResponses>>
    /\ UNCHANGED <<txs, idx, calls, txsByShardId, pendingShards, totalTxsSent>>
    /\ LET chk == checkTransactionFields(t)
           sh == SenderShard(t)
       IN
       IF chk # Nil
       THEN /\ Return([status |-> StatusBadRequest, hash |-> "", err |-> chk])
            /\ UNCHANGED <<shardId, observers, lookups>>
       ELSE IF ~Decode(t.Sender).ok
       THEN /\ Return([status |-> StatusBadRequest, hash |-> "", err |-> ErrDecode])
            /\ UNCHANGED <<shardId, observers, lookups>>
       ELSE IF ~sh.ok
       THEN /\ Return([status |-> StatusInternalServerError, hash |-> "",
                       err |-> ErrComputeShardId])
            /\ UNCHANGED <<shardId, observers, lookups>>
       ELSE \E r \in GetObserversResults(sh.shard) :
            /\ shardId' = sh.shard
            /\ observers' = r.observers
            /\ lookups' = Append(lookups, [shard |-> sh.shard, err |-> r.err,
                                           observers |-> r.observers])
            /\ IF r.err # Nil
               THEN Return([status |-> StatusInternalServerError, hash |-> "",
                            err |-> r.err])
               ELSE IF Len(r.observers) = 0
               THEN Return(SendExhausted)
               ELSE pc' = "loop" /\ UNCHANGED ret

\* lines 122-145: one iteration of the loop over the observers
SendTransactionPost ==
    /\ pc = "loop"
    /\ op = "SendTransaction"
    /\ \E reply \in SendReplies :
       LET observer == ObserverAt(observers, idx)
           verdict == SendVerdict(reply)
       IN
       /\ calls' = Append(calls, [observer |-> observer,
                                  path |-> TransactionSendPath,
                                  body |-> tx, reply |-> reply])
       /\ CASE verdict = "success" ->
                 /\ Return([status |-> reply.code, hash |-> reply.hash, err |-> Nil])
                 /\ UNCHANGED idx
            [] verdict = "skip" ->
                 /\ idx' = idx + 1
                 /\ IF idx = Len(observers)
                    THEN Return(SendExhausted)
                    ELSE UNCHANGED <<pc, ret>>
            [] OTHER ->
                 /\ Return([status |-> reply.code, hash |-> "", err |-> reply.err])
                 /\ UNCHANGED idx
    /\ UNCHANGED extraVars
    /\ UNCHANGED <<txHash, observersResponses>>
    /\ UNCHANGED <<op, tx, txs, shardId, observers, lookups,
                   txsByShardId, pendingShards, totalTxsSent>>

-----------------------------------------------------------------------------
(* TransactionCostRequest *)

\* the observers of the metachain are not skipped
NextCostObserverNoSkip(list, i) == i

\* lines 203-206: the first index from i on whose observer is not of the
\* metachain, Len(list) + 1 when there is none
NextCostObserver(list, i) ==
    LET rest == {j \in i..Len(list) : list[j].ShardId # MetachainShardId}
    IN  IF rest = {} THEN Len(list) + 1
        ELSE CHOOSE j \in rest : \A k \in rest : j <= k

\* a 404/408 reply is skipped only when it carries no error
CostVerdictSkipOnlyWithoutError(reply) ==
    IF reply.code = StatusOK /\ reply.err = Nil THEN "success"
    ELSE IF (reply.code = StatusNotFound \/ reply.code = StatusRequestTimeout)
            /\ reply.err = Nil
         THEN "skip"
         ELSE "fail"

\* lines 210-225: what the loop does with a reply
CostVerdict(reply) ==
    IF reply.code = StatusOK /\ reply.err = Nil THEN "success"
    ELSE IF reply.code = StatusNotFound \/ reply.code = StatusRequestTimeout
         THEN "skip"
         ELSE "fail"

\* line 229
CostExhausted == [cost |-> <<>>, err |-> ErrSendingRequest]

\* lines 196-206 and the entry of the loop
TransactionCostRequest(t) ==
    /\ pc = "idle"
    /\ op' = "TransactionCostRequest"
    /\ tx' = t
    /\ UNCHANGED extraVars
    /\ UNCHANGED <<txHash, observersResponses>>
    /\ UNCHANGED <<txs, shardId, lookups, calls,
                   txsByShardId, pendingShards, totalTxsSent>>
    /\ LET chk == checkTransactionFields(t) IN
       IF chk # Nil
       THEN /\ Return([cost |-> <<>>, err |-> chk])
            /\ UNCHANGED <<observers, idx>>
       ELSE \E all \in AllObserversResults :
            /\ observers' = all
            /\ idx' = NextCostObserver(all, 1)
            /\ IF NextCostObserver(all, 1) > Len(all)
               THEN Return(CostExhausted)
               ELSE pc' = "loop" /\ UNCHANGED ret

\* lines 203-229: one iteration of the loop that posts
TransactionCostPost ==
    /\ pc = "loop"
    /\ op = "TransactionCostRequest"
    /\ \E reply \in CostReplies :
       LET observer == ObserverAt(observers, idx)
           verdict == CostVerdict(reply)
       IN
       /\ calls' = Append(calls, [observer |-> observer,
                                  path |-> TransactionCostPath,
                                  body |-> tx, reply |-> reply])
       /\ CASE verdict = "success" ->
                 /\ Return([cost |-> Itoa(ToInt(reply.txCost)), err |-> Nil])
                 /\ UNCHANGED idx
            [] verdict = "skip" ->
                 /\ idx' = NextCostObserver(observers, idx + 1)
                 /\ IF NextCostObserver(observers, idx + 1) > Len(observers)
                    THEN Return(CostExhausted)
                    ELSE UNCHANGED <<pc, ret>>
            [] OTHER ->
                 /\ Return([cost |-> <<>>, err |-> reply.err])
                 /\ UNCHANGED idx
    /\ UNCHANGED extraVars
    /\ UNCHANGED <<txHash, observersResponses>>
    /\ UNCHANGED <<op, tx, txs, shardId, observers, lookups,
                   txsByShardId, pendingShards, totalTxsSent>>

-----------------------------------------------------------------------------
(* The single-transaction write paths *)

Next ==
    \/ \E t \in Transactions : SendTransaction(t)
    \/ SendTransactionPost
    \/ \E t \in Transactions : TransactionCostRequest(t)
    \/ TransactionCostPost

Spec == Init /\ [][Next]_vars

-----------------------------------------------------------------------------
(* SendMultipleTransactions *)

\* The transactions a batch is made of: one good transaction per shard and,
\* for every field, a transaction in which that field alone is bad.
GoodTx(sender) ==
    [Sender |-> sender, Receiver |-> <<"0","0">>, Signature |-> <<"a","b">>,
     ChainID |-> "1", Version |-> 1, Value |-> <<"1","0">>]

BatchTransactions ==
    {GoodTx(<<"0","0">>), GoodTx(<<"0","1">>)} \cup
    {t \in Transactions :
        \/ t \in {GoodTx(<<>>), GoodTx(<<"z","z">>)}
        \/ \E f \in {"Receiver", "Signature", "ChainID", "Version", "Value"} :
              /\ t[f] # GoodTx(<<"0","0">>)[f]
              /\ [t EXCEPT ![f] = GoodTx(<<"0","0">>)[f]] = GoodTx(<<"0","0">>)}

Batches == UNION {[1..n -> BatchTransactions] : n \in 0..MaxTxs}

\* data.ResponseMultiTransactions for a batch of n transactions. The loop
\* tells only a good reply from any other.
MultiReplies(n) ==
    {[code |-> StatusOK, err |-> Nil, numOfTxs |-> k] : k \in {0, n}} \cup
    {[code |-> StatusNotFound, err |-> ErrUpstream, numOfTxs |-> 0],
     [code |-> StatusBadRequest, err |-> Nil, numOfTxs |-> 0]}

\* lines 151-163: the transactions that pass checkTransactionFields, in order
ValidTxs(list) == SelectSeq(list, LAMBDA t : checkTransactionFields(t) = Nil)

\* the shard of the receiver decides the batch
TxInReceiverShard(t, s) ==
    /\ Decode(t.Receiver).ok
    /\ ComputeShardId(Decode(t.Receiver).bytes).ok
    /\ ComputeShardId(Decode(t.Receiver).bytes).shard = s

\* lines 297-305: the sender of t decodes and its shard is s
TxInShard(t, s) ==
    /\ Decode(t.Sender).ok
    /\ ComputeShardId(Decode(t.Sender).bytes).ok
    /\ ComputeShardId(Decode(t.Sender).bytes).shard = s

\* lines 294-311: a Go map, as a function on the shards that have a batch
getTxsByShardId(list) ==
    LET keys == {s \in ShardIDs : \E i \in 1..Len(list) : TxInShard(list[i], s)}
    IN  [s \in keys |-> SelectSeq(list, LAMBDA t : TxInShard(t, s))]

\* a reply without error is accepted whatever its status
MultiAcceptedWithoutStatus(reply) == reply.err = Nil

\* lines 178-185: a reply the loop accepts
MultiAccepted(reply) == reply.code = StatusOK /\ reply.err = Nil

\* lines 169 and 192: the range loop goes on with another shard, or the
\* function returns the total
MultiShardDone(total, pending) ==
    IF pending = {}
    THEN Return([numOfTxs |-> total, err |-> Nil])
    ELSE pc' = "shards" /\ UNCHANGED ret

\* a shard none of whose observers accepted ends the call with an error
MultiShardExhaustedAborts(total, pending) ==
    Return([numOfTxs |-> 0, err |-> ErrSendingRequest])

\* lines 175-190: the observers of the shard ran out without a good reply;
\* nothing is added and the range loop goes on
MultiShardExhausted(total, pending) == MultiShardDone(total, pending)

\* lines 149-168
SendMultipleTransactions(batch) ==
    /\ pc = "idle"
    /\ op' = "SendMultipleTransactions"
    /\ txs' = batch
    /\ UNCHANGED extraVars
    /\ UNCHANGED <<txHash, observersResponses>>
    /\ UNCHANGED <<tx, shardId, observers, idx, lookups, calls, totalTxsSent>>
    /\ LET txsToSend == ValidTxs(batch) IN
       IF Len(txsToSend) = 0
       THEN /\ Return([numOfTxs |-> 0, err |-> ErrNoValidTransactionToSend])
            /\ UNCHANGED <<txsByShardId, pendingShards>>
       ELSE /\ txsByShardId' = getTxsByShardId(txsToSend)
            /\ pendingShards' = DOMAIN getTxsByShardId(txsToSend)
            /\ MultiShardDone(0, DOMAIN getTxsByShardId(txsToSend))

\* lines 169-173: the range over the map yields its keys in any order
SendMultipleNextShard ==
    /\ pc = "shards"
    /\ op = "SendMultipleTransactions"
    /\ \E s \in pendingShards : \E r \in GetObserversResults(s) :
       /\ shardId' = s
       /\ observers' = r.observers
       /\ idx' = 1
       /\ pendingShards' = pendingShards \ {s}
       /\ lookups' = Append(lookups, [shard |-> s, err |-> r.err,
                                      observers |-> r.observers])
       /\ IF r.err # Nil
          THEN Return([numOfTxs |-> 0, err |-> ErrMissingObserver])
          ELSE IF Len(r.observers) = 0
          THEN MultiShardDone(totalTxsSent, pendingShards \ {s})
          ELSE pc' = "loop" /\ UNCHANGED ret
    /\ UNCHANGED extraVars
    /\ UNCHANGED <<txHash, observersResponses>>
    /\ UNCHANGED <<op, tx, txs, calls, txsByShardId, totalTxsSent>>

\* lines 175-189: one iteration of the loop over the shard's observers
SendMultiplePost ==
    /\ pc = "loop"
    /\ op = "SendMultipleTransactions"
    /\ \E reply \in MultiReplies(Len(txsByShardId[shardId])) :
       /\ calls' = Append(calls, [observer |-> ObserverAt(observers, idx),
                                  path |-> MultipleTransactionsPath,
                                  body |-> txsByShardId[shardId],
                                  reply |-> reply])
       /\ IF MultiAccepted(reply)
          THEN /\ totalTxsSent' = totalTxsSent + reply.numOfTxs
               /\ UNCHANGED idx
               /\ MultiShardDone(totalTxsSent + reply.numOfTxs, pendingShards)
          ELSE /\ UNCHANGED totalTxsSent
               /\ idx' = idx + 1
               /\ IF idx = Len(observers)
                  THEN MultiShardExhausted(totalTxsSent, pendingShards)
                  ELSE UNCHANGED <<pc, ret>>
    /\ UNCHANGED extraVars
    /\ UNCHANGED <<txHash, observersResponses>>
    /\ UNCHANGED <<op, tx, txs, shardId, observers, lookups,
                   txsByShardId, pendingShards>>

\* The bulk write path
NextMulti ==
    \/ \E batch \in Batches : SendMultipleTransactions(batch)
    \/ SendMultipleNextShard
    \/ SendMultiplePost

SpecMulti == Init /\ [][NextMulti]_vars

-----------------------------------------------------------------------------
(* GetTransactionStatus *)

\* What GetAllObservers() may answer to a status query: observers of any
\* shards in any order, several of them of one shard.
StatusObserversResults ==
    {l \in UNION {[1..n -> {Observer(s, i) : s \in ShardIDs, i \in 1..MaxObservers}] :
                    n \in 0..MaxObservers} :
        \A i, j \in DOMAIN l : i # j => l[i] # l[j]}

\* the statuses an observer reports
TxStatuses == {UnknownStatusTx, "executed", "invalid"}

\* data.ResponseTxStatus and the error of CallGetRestEndPoint: nothing is
\* decoded when the call fails
StatusReplies ==
    {[err |-> ErrGetUpstream, status |-> ""]} \cup
    {[err |-> Nil, status |-> st] : st \in TxStatuses}

\* line 261: the map with status appended to the entry of shard
AppendResponse(responses, shard, status) ==
    [s \in DOMAIN responses \cup {shard} |->
        IF s = shard
        THEN Append(IF shard \in DOMAIN responses THEN responses[shard] ELSE <<>>,
                    status)
        ELSE responses[s]]

\* a reply "unknown" is kept like any other
OkResponsesKeepUnknown(allResponses) == allResponses

\* lines 268-276: the map without its "unknown" replies; a shard that has
\* only such replies has no entry
OkResponses(allResponses) ==
    LET known(s) == SelectSeq(allResponses[s], LAMBDA r : r # UnknownStatusTx)
    IN  [s \in {k \in DOMAIN allResponses : known(k) # <<>>} |-> known(s)]

\* replies of more than one shard are never a conflict
ConflictNever(okResponses) == FALSE

\* line 278: more than one shard gave a reply that counts
Conflict(okResponses) == Cardinality(DOMAIN okResponses) > 1

\* the first reply of the shard is returned without a look at the others
AllEqualUnchecked(responses) == TRUE

\* lines 283-288: every reply of the shard is the shard's first reply
AllEqual(responses) == \A i \in 1..Len(responses) : responses[i] = responses[1]

\* lines 267-292; the range of line 282 runs over one entry at most, or
\* over any one of them when line 278 were to let several through
parseTxStatusResponses(allResponses) ==
    LET okResponses == OkResponses(allResponses) IN
    IF Conflict(okResponses)
    THEN {[status |-> "", err |-> ErrCannotGetTransactionStatus]}
    ELSE IF DOMAIN okResponses = {}
    THEN {[status |-> UnknownStatusTx, err |-> Nil]}
    ELSE {IF AllEqual(okResponses[s])
          THEN [status |-> okResponses[s][1], err |-> Nil]
          ELSE [status |-> "", err |-> ErrCannotGetTransactionStatus] :
             s \in DOMAIN okResponses}

\* lines 250-252 and the entry of the loop
GetTransactionStatus(hash) ==
    /\ pc = "idle"
    /\ op' = "GetTransactionStatus"
    /\ txHash' = hash
    /\ observersResponses' = <<>>
    /\ idx' = 1
    /\ \E all \in StatusObserversResults :
       /\ observers' = all
       /\ IF Len(all) = 0
          THEN \E r \in parseTxStatusResponses(<<>>) : Return(r)
          ELSE pc' = "loop" /\ UNCHANGED ret
    /\ UNCHANGED extraVars
    /\ UNCHANGED <<tx, txs, shardId, lookups, calls,
                   txsByShardId, pendingShards, totalTxsSent>>

\* lines 253-264: one iteration of the loop over the observers, and the
\* verdict after the last one
GetTransactionStatusGet ==
    /\ pc = "loop"
    /\ op = "GetTransactionStatus"
    /\ \E reply \in StatusReplies :
       LET observer == ObserverAt(observers, idx)
           responses == IF reply.err # Nil
                        THEN observersResponses
                        ELSE AppendResponse(observersResponses,
                                            observer.ShardId, reply.status)
       IN
       /\ calls' = Append(calls, [observer |-> observer,
                                  path |-> <<TransactionPath, txHash, "/status">>,
                                  reply |-> reply])
       /\ observersResponses' = responses
       /\ idx' = idx + 1
       /\ IF idx = Len(observers)
          THEN \E r \in parseTxStatusResponses(responses) : Return(r)
          ELSE UNCHANGED <<pc, ret>>
    /\ UNCHANGED extraVars
    /\ UNCHANGED <<op, tx, txs, shardId, observers, lookups,
                   txsByShardId, pendingShards, totalTxsSent, txHash>>

\* The status query
NextStatus ==
    \/ \E hash \in Hashes : GetTransactionStatus(hash)
    \/ GetTransactionStatusGet

SpecStatus == Init /\ [][NextStatus]_vars

-----------------------------------------------------------------------------
(* GetTransaction *)

\* a nil *transaction.TxResponse
NilResponse == "nil"

\* the bodies an observer sends: a transaction, or "" for the zero value
\* that is left when the body holds no transaction
TxBodies == {"TX1", "TX2"}

\* What CallGetRestEndPoint gives for TransactionPath+txHash: an error, or
\* no error and the decoded body. code is the HTTP status of the observer,
\* which this CallGetRestEndPoint does not hand to its caller.
GetTxReplies ==
    {[err |-> ErrGetUpstream, code |-> 0, body |-> ""]} \cup
    {[err |-> Nil, code |-> StatusOK, body |-> b] : b \in TxBodies} \cup
    {[err |-> Nil, code |-> c, body |-> ""] :
        c \in {StatusBadRequest, StatusNotFound, StatusInternalServerError}}

\* the loop never goes on to another observer
GetTxAnsweredAlways(reply) == TRUE

\* an answer counts only with the status 200
GetTxAnsweredOnlyOK(reply) == reply.err = Nil /\ reply.code = StatusOK

\* lines 240-244: the call returned no error
GetTxAnswered(reply) == reply.err = Nil

\* lines 233-237 and the entry of the loop; with no observer line 247
\* returns the err that was never set
GetTransaction(hash) ==
    /\ pc = "idle"
    /\ op' = "GetTransaction"
    /\ txHash' = hash
    /\ idx' = 1
    /\ \E all \in StatusObserversResults :
       /\ observers' = all
       /\ IF Len(all) = 0
          THEN Return([tx |-> NilResponse, err |-> Nil])
          ELSE pc' = "loop" /\ UNCHANGED ret
    /\ UNCHANGED extraVars
    /\ UNCHANGED <<tx, txs, shardId, lookups, calls, txsByShardId,
                   pendingShards, totalTxsSent, observersResponses>>

\* lines 237-247: one iteration of the loop over the observers
GetTransactionGet ==
    /\ pc = "loop"
    /\ op = "GetTransaction"
    /\ \E reply \in GetTxReplies :
       /\ calls' = Append(calls, [observer |-> ObserverAt(observers, idx),
                                  path |-> <<TransactionPath, txHash>>,
                                  reply |-> reply])
       /\ IF GetTxAnswered(reply)
          THEN /\ Return([tx |-> reply.body, err |-> Nil])
               /\ UNCHANGED idx
          ELSE /\ idx' = idx + 1
               /\ IF idx = Len(observers)
                  THEN Return([tx |-> NilResponse, err |-> reply.err])
                  ELSE UNCHANGED <<pc, ret>>
    /\ UNCHANGED extraVars
    /\ UNCHANGED <<op, tx, txs, shardId, observers, lookups, txsByShardId,
                   pendingShards, totalTxsSent, txHash, observersResponses>>

\* The query of a transaction by its hash
NextGetTx ==
    \/ \E hash \in Hashes : GetTransaction(hash)
    \/ GetTransactionGet

SpecGetTx == Init /\ [][NextGetTx]_vars

-----------------------------------------------------------------------------
(* GetTransaction with results: the reconciliation of a cross-shard
   transaction *)

ScHashes == {"scHash1", "scHash2", "scHash3"}

\* transaction.ApiSmartContractResult
ScResults == [Hash : ScHashes, Data : {"", "@6f6b"}]

\* the ScResults of one reply
ScResultLists == UNION {[1..n -> ScResults] : n \in 0..MaxScResults}

\* the regular shards, where transactions are sent from and to
RegularShards == 0..(NumberOfShards - 1)

\* the two sequences one after the other, nothing removed
MergeScResultsConcat(dst, src) == dst \o src

\* union by hash of the two sequences: of the results that have the same
\* hash the first one is kept
MergeScResults(dst, src) ==
    LET all == dst \o src
        firstOf(i) == \A j \in 1..(i - 1) : all[j].Hash # all[i].Hash
        F[i \in 0..Len(all)] ==
            IF i = 0 THEN <<>>
            ELSE IF firstOf(i) THEN Append(F[i - 1], all[i]) ELSE F[i - 1]
    IN  F[Len(all)]

\* the candidate reply: an observer of the destination shard has the
\* transaction; a cross-shard one is reconciled with the sender's shard
GetTransactionWithResults(hash) ==
    /\ pc = "idle"
    /\ op' = "GetTransactionWithResults"
    /\ txHash' = hash
    /\ \E source \in RegularShards, destination \in RegularShards,
          scrs \in ScResultLists :
       LET candidate == [SourceShard |-> source,
                         DestinationShard |-> destination,
                         ScResults |-> scrs]
       IN
       /\ calls' = Append(calls, [observer |-> Observer(destination, 1),
                                  path |-> <<TransactionPath, hash, "?withResults=true">>,
                                  reply |-> [err |-> Nil, code |-> StatusOK,
                                             body |-> candidate]])
       /\ IF source = destination
          THEN Return([tx |-> candidate, err |-> Nil])
          ELSE /\ pc' = "source"
               /\ ret' = [tx |-> candidate, err |-> Nil]
    /\ UNCHANGED extraVars
    /\ UNCHANGED <<tx, txs, shardId, observers, idx, lookups, txsByShardId,
                   pendingShards, totalTxsSent, observersResponses>>

\* the query of the sender's shard: its results are merged into the
\* candidate; when it fails the candidate is returned as it is
GetTransactionFromSource ==
    /\ pc = "source"
    /\ op = "GetTransactionWithResults"
    /\ \E reply \in {[err |-> ErrGetUpstream, code |-> 0, body |-> <<>>]} \cup
                    {[err |-> Nil, code |-> StatusOK,
                      body |-> [ret.tx EXCEPT !.ScResults = scrs]] :
                         scrs \in ScResultLists} :
       /\ calls' = Append(calls, [observer |-> Observer(ret.tx.SourceShard, 1),
                                  path |-> <<TransactionPath, txHash, "?withResults=true">>,
                                  reply |-> reply])
       /\ IF reply.err = Nil
          THEN Return([tx |-> [ret.tx EXCEPT !.ScResults =
                                  MergeScResults(ret.tx.ScResults,
                                                 reply.body.ScResults)],
                       err |-> Nil])
          ELSE Return(ret)
    /\ UNCHANGED extraVars
    /\ UNCHANGED <<op, tx, txs, shardId, observers, idx, lookups, txsByShardId,
                   pendingShards, totalTxsSent, txHash, observersResponses>>

NextGetTxWithResults ==
    \/ \E hash \in Hashes : GetTransactionWithResults(hash)
    \/ GetTransactionFromSource

SpecGetTxWithResults == Init /\ [][NextGetTxWithResults]_vars

-----------------------------------------------------------------------------
(* Mempool views *)

\* a nil result
NilResult == "nil"

InitPool == NoRequest /\ allowEntireTxPoolFetch \in BOOLEAN

\* data.TransactionsPool with nothing in it
EmptyPool == [regular |-> <<>>, scrs |-> <<>>, rewards |-> <<>>]

\* the wrapped transaction of a category that the pool of a shard holds
PoolItem(category, shard) == [category |-> category, shard |-> shard]

\* What an observer of shard answers to a pool request: a failure, or a
\* pool that has, in each category, no item or one.
PoolReplies(shard) ==
    {[code |-> 0, err |-> ErrGetUpstream, pool |-> EmptyPool],
     [code |-> StatusInternalServerError, err |-> Nil, pool |-> EmptyPool]} \cup
    {[code |-> StatusOK, err |-> Nil,
      pool |-> [regular |-> IF r THEN <<PoolItem("regular", shard)>> ELSE <<>>,
                scrs |-> IF c THEN <<PoolItem("scrs", shard)>> ELSE <<>>,
                rewards |-> IF w THEN <<PoolItem("rewards", shard)>> ELSE <<>>]] :
        r \in BOOLEAN, c \in BOOLEAN, w \in BOOLEAN}

\* the reply of the task that finished last replaces what was gathered
PoolReplaced(view, pool) == pool

\* the three sequences of a reply appended to those of the view
PoolAppended(view, pool) ==
    [regular |-> view.regular \o pool.regular,
     scrs |-> view.scrs \o pool.scrs,
     rewards |-> view.rewards \o pool.rewards]

\* the flag is not looked at
MempoolAllowedAlways == TRUE

\* the gate of every mempool entry point
MempoolAllowed == allowEntireTxPoolFetch

\* what a mempool entry point returns when the flag is not set; the last
\* nonce is a number, the other results are pointers
NotAllowed(entryPoint) ==
    [result |-> IF entryPoint = "GetLastPoolNonceForSender" THEN 0 ELSE NilResult,
     err |-> ErrOperationNotAllowed]

\* the view is returned, or the error of an empty view
PoolResult(view) ==
    IF view = EmptyPool
    THEN [result |-> NilResult, err |-> ErrTransactionsNotFoundInPool]
    ELSE [result |-> view, err |-> Nil]

\* GetTransactionsPool: one task per shard is started
GetTransactionsPool ==
    /\ pc = "idle"
    /\ op' = "GetTransactionsPool"
    /\ poolTxs' = EmptyPool
    /\ IF ~MempoolAllowed
       THEN Return(NotAllowed("GetTransactionsPool")) /\ UNCHANGED pendingShards
       ELSE pc' = "fanout" /\ pendingShards' = ShardIDs /\ UNCHANGED ret
    /\ UNCHANGED <<running, txResponses>>
    /\ UNCHANGED <<request, simulation, allowEntireTxPoolFetch, valStatsResponse, txResult>>
    /\ UNCHANGED <<tx, txs, shardId, observers, idx, lookups, calls,
                   txsByShardId, totalTxsSent, txHash, observersResponses>>

\* the task of one shard finishes, in any order with the others; the call
\* returns when the last one has
GetTransactionsPoolTaskDone ==
    /\ pc = "fanout"
    /\ op = "GetTransactionsPool"
    /\ \E s \in pendingShards : \E reply \in PoolReplies(s) :
       LET view == IF reply.code = StatusOK /\ reply.err = Nil
                   THEN PoolAppended(poolTxs, reply.pool)
                   ELSE poolTxs
       IN
       /\ calls' = Append(calls, [observer |-> Observer(s, 1),
                                  path |-> "/transaction/pool",
                                  reply |-> reply])
       /\ pendingShards' = pendingShards \ {s}
       /\ poolTxs' = view
       /\ IF pendingShards = {s}
          THEN Return(PoolResult(view))
          ELSE UNCHANGED <<pc, ret>>
    /\ UNCHANGED <<running, txResponses>>
    /\ UNCHANGED <<request, simulation, allowEntireTxPoolFetch, valStatsResponse, txResult>>
    /\ UNCHANGED <<op, tx, txs, shardId, observers, idx, lookups,
                   txsByShardId, totalTxsSent, txHash, observersResponses>>

\* the mempool entry points that ask the observers of one shard
ShardPoolEntryPoints ==
    {"GetTransactionsPoolForShard", "GetTransactionsPoolForSender",
     "GetLastPoolNonceForSender", "GetTransactionsPoolNonceGapsForSender"}

\* the gate, the lookup of the shard's observers and the entry of the loop
ShardPoolRequest(entryPoint, shard) ==
    /\ op' = entryPoint
    /\ IF ~MempoolAllowed
       THEN /\ Return(NotAllowed(entryPoint))
            /\ UNCHANGED <<shardId, observers, idx, lookups>>
       ELSE \E r \in GetObserversResults(shard) :
            /\ shardId' = shard
            /\ observers' = r.observers
            /\ idx' = 1
            /\ lookups' = Append(lookups, [shard |-> shard, err |-> r.err,
                                           observers |-> r.observers])
            /\ IF r.err # Nil
               THEN Return([result |-> NotAllowed(entryPoint).result, err |-> r.err])
               ELSE IF Len(r.observers) = 0
               THEN Return([result |-> NotAllowed(entryPoint).result,
                            err |-> ErrSendingRequest])
               ELSE pc' = "loop" /\ UNCHANGED ret
    /\ UNCHANGED extraVars
    /\ UNCHANGED <<tx, txs, calls, txsByShardId, pendingShards, totalTxsSent,
                   txHash, observersResponses>>

\* GetTransactionsPoolForShard(shardId, fields)
GetTransactionsPoolForShard(shard) ==
    /\ pc = "idle"
    /\ ShardPoolRequest("GetTransactionsPoolForShard", shard)

\* GetTransactionsPoolForSender, GetLastPoolNonceForSender and
\* GetTransactionsPoolNonceGapsForSender: the shard is the sender's
GetPoolForSender(entryPoint, sender) ==
    /\ pc = "idle"
    /\ IF MempoolAllowed /\ ~(Decode(sender).ok
                              /\ ComputeShardId(Decode(sender).bytes).ok)
       THEN /\ op' = entryPoint
            /\ Return([result |-> NotAllowed(entryPoint).result,
                       err |-> IF Decode(sender).ok THEN ErrComputeShardId
                               ELSE ErrDecode])
            /\ UNCHANGED extraVars
            /\ UNCHANGED <<tx, txs, shardId, observers, idx, lookups, calls,
                           txsByShardId, pendingShards, totalTxsSent, txHash,
                           observersResponses>>
       ELSE ShardPoolRequest(entryPoint,
                             IF Decode(sender).ok
                             THEN ComputeShardId(Decode(sender).bytes).shard
                             ELSE 0)

\* what the entry point makes of a good reply that holds something (full)
\* or nothing
ShardPoolAnswer(entryPoint, shard, full) ==
    CASE entryPoint = "GetLastPoolNonceForSender" ->
            [result |-> IF full THEN 1 ELSE 0, err |-> Nil]
      [] entryPoint = "GetTransactionsPoolNonceGapsForSender" ->
            IF full THEN [result |-> <<[from |-> 1, to |-> 1]>>, err |-> Nil]
            ELSE [result |-> NilResult, err |-> ErrNonceGapsNotFoundInPool]
      [] OTHER ->
            PoolResult(IF full
                       THEN PoolAppended(EmptyPool,
                                         [EmptyPool EXCEPT !.regular =
                                             <<PoolItem("regular", shard)>>])
                       ELSE EmptyPool)

\* one iteration of the loop over the shard's observers: the first good
\* reply decides
ShardPoolGet ==
    /\ pc = "loop"
    /\ op \in ShardPoolEntryPoints
    /\ \E reply \in [code : {StatusOK, StatusInternalServerError},
                     err : {Nil, ErrGetUpstream}, full : BOOLEAN] :
       /\ (reply.full => reply.code = StatusOK /\ reply.err = Nil)
       /\ calls' = Append(calls, [observer |-> ObserverAt(observers, idx),
                                  path |-> "/transaction/pool",
                                  reply |-> reply])
       /\ IF reply.code = StatusOK /\ reply.err = Nil
          THEN /\ Return(ShardPoolAnswer(op, shardId, reply.full))
               /\ UNCHANGED idx
          ELSE /\ idx' = idx + 1
               /\ IF idx = Len(observers)
                  THEN Return([result |-> NotAllowed(op).result,
                               err |-> ErrSendingRequest])
                  ELSE UNCHANGED <<pc, ret>>
    /\ UNCHANGED extraVars
    /\ UNCHANGED <<op, tx, txs, shardId, observers, lookups, txsByShardId,
                   pendingShards, totalTxsSent, txHash, observersResponses>>

NextPool ==
    \/ GetTransactionsPool
    \/ GetTransactionsPoolTaskDone
    \/ \E shard \in ShardIDs : GetTransactionsPoolForShard(shard)
    \/ \E e \in ShardPoolEntryPoints \ {"GetTransactionsPoolForShard"} :
          \E sender \in SenderStrings : GetPoolForSender(e, sender)
    \/ ShardPoolGet

SpecPool == InitPool /\ [][NextPool]_vars

-----------------------------------------------------------------------------
(* GetAuctionList *)

\* the fields of data.AuctionListResponse that a body can set
AuctionFields == {"auctionList"}

\* the lists an observer sends
AuctionLists == {"LIST1", "LIST2", "LIST3"}

\* what a body sets in the response it is decoded into: the fields it holds
AuctionBodies ==
    UNION {[fs -> AuctionLists] : fs \in SUBSET AuctionFields}

\* What CallGetRestEndPoint gives for auctionListPath: the status, the
\* error and what the call has written into the response, which a call
\* that fails may have begun to fill.
AuctionReplies ==
    [code : {StatusOK, StatusInternalServerError},
     err : {Nil, ErrGetUpstream},
     data : AuctionBodies]

\* line 22: the response after a call has decoded data into it; the
\* fields the body does not hold keep what they had
Decoded(response, data) ==
    [f \in DOMAIN response \cup DOMAIN data |->
        IF f \in DOMAIN data THEN data[f] ELSE response[f]]

\* a call counts only when its status is 200
AuctionAnsweredOnlyOK(reply) == reply.err = Nil /\ reply.code = StatusOK

\* line 23: the status is dropped, the error decides
AuctionAnswered(reply) == reply.err = Nil

\* lines 8-20 and the entry of the loop
GetAuctionList ==
    /\ pc = "idle"
    /\ op' = "GetAuctionList"
    /\ valStatsResponse' = <<>>
    /\ \E r \in GetObserversResults(MetachainShardId) :
       /\ shardId' = MetachainShardId
       /\ observers' = r.observers
       /\ idx' = 1
       /\ lookups' = Append(lookups, [shard |-> MetachainShardId, err |-> r.err,
                                      observers |-> r.observers])
       /\ IF r.err # Nil
          THEN Return([data |-> NilResult, err |-> r.err])
          ELSE IF Len(r.observers) = 0
          THEN Return([data |-> NilResult, err |-> ErrAuctionListNotAvailable])
          ELSE pc' = "loop" /\ UNCHANGED ret
    /\ UNCHANGED <<running, txResponses>>
    /\ UNCHANGED <<request, simulation, allowEntireTxPoolFetch, poolTxs, txResult>>
    /\ UNCHANGED <<tx, txs, calls, txsByShardId, pendingShards, totalTxsSent,
                   txHash, observersResponses>>

\* lines 21-31: one iteration of the loop over the metachain observers
GetAuctionListGet ==
    /\ pc = "loop"
    /\ op = "GetAuctionList"
    /\ \E reply \in AuctionReplies :
       /\ calls' = Append(calls, [observer |-> ObserverAt(observers, idx),
                                  path |-> auctionListPath,
                                  reply |-> reply])
       /\ valStatsResponse' = Decoded(valStatsResponse, reply.data)
       /\ IF AuctionAnswered(reply)
          THEN /\ Return([data |-> Decoded(valStatsResponse, reply.data),
                          err |-> Nil])
               /\ UNCHANGED idx
          ELSE /\ idx' = idx + 1
               /\ IF idx = Len(observers)
                  THEN Return([data |-> NilResult,
                               err |-> ErrAuctionListNotAvailable])
                  ELSE UNCHANGED <<pc, ret>>
    /\ UNCHANGED <<running, txResponses>>
    /\ UNCHANGED <<request, simulation, allowEntireTxPoolFetch, poolTxs, txResult>>
    /\ UNCHANGED <<op, tx, txs, shardId, observers, lookups, txsByShardId,
                   pendingShards, totalTxsSent, txHash, observersResponses>>

NextAuction ==
    \/ GetAuctionList
    \/ GetAuctionListGet

SpecAuction == Init /\ [][NextAuction]_vars

-----------------------------------------------------------------------------
(* resultsParser.ParseResultOutcome *)

\* the printable characters in the order of their codes, from the space
\* (32) to "_" (95) and from "a" (97) on
Printable ==
    <<" ", "!", "\"", "#", "$", "%", "&", "'", "(", ")", "*", "+",
      ",", "-", ".", "/", "0", "1", "2", "3", "4", "5", "6", "7",
      "8", "9", ":", ";", "<", "=", ">", "?", "@", "A", "B", "C",
      "D", "E", "F", "G", "H", "I", "J", "K", "L", "M", "N", "O",
      "P", "Q", "R", "S", "T", "U", "V", "W", "X", "Y", "Z", "[",
      "\\", "]", "^", "_", "a", "b", "c", "d", "e", "f", "g",
      "h", "i", "j", "k", "l", "m", "n", "o", "p", "q", "r", "s",
      "t", "u", "v", "w", "x", "y", "z", "{", "|", "}", "~">>

\* the code of a character
AsciiOf(c) ==
    LET i == CHOOSE k \in 1..Len(Printable) : Printable[k] = c
    IN  IF i <= 64 THEN 31 + i ELSE 32 + i

\* []byte(s): the bytes of a text
Bytes(s) == [i \in 1..Len(s) |-> AsciiOf(s[i])]

\* the digits of hex.EncodeToString
HexDigits ==
    <<"0", "1", "2", "3", "4", "5", "6", "7", "8", "9",
      "a", "b", "c", "d", "e", "f">>

\* the two hex digits of each byte
HexEncodeToString(bytes) ==
    [i \in 1..(2 * Len(bytes)) |->
        IF i % 2 = 1
        THEN HexDigits[(bytes[(i + 1) \div 2] \div 16) + 1]
        ELSE HexDigits[(bytes[i \div 2] % 16) + 1]]

\* the alphabet of base64.StdEncoding
Base64Alphabet ==
    <<"A", "B", "C", "D", "E", "F", "G", "H", "I", "J", "K", "L",
      "M", "N", "O", "P", "Q", "R", "S", "T", "U", "V", "W", "X",
      "Y", "Z", "a", "b", "c", "d", "e", "f", "g", "h", "i", "j",
      "k", "l", "m", "n", "o", "p", "q", "r", "s", "t", "u", "v",
      "w", "x", "y", "z", "0", "1", "2", "3", "4", "5", "6", "7",
      "8", "9", "+", "/">>

\* the six bits a character of the alphabet stands for; the padding gives 0
Base64Value(c) ==
    IF c = "="
    THEN 0
    ELSE (CHOOSE i \in 1..Len(Base64Alphabet) : Base64Alphabet[i] = c) - 1

\* base64.StdEncoding.DecodeString: an error unless the text is made of
\* groups of four characters of the alphabet, the last group ending in at
\* most two "="; else three bytes per group, less one per "=".
Base64Decode(s) ==
    LET n == Len(s)
        pad == IF n > 0 /\ s[n] = "="
               THEN IF n > 1 /\ s[n - 1] = "=" THEN 2 ELSE 1
               ELSE 0
        alphabet == {Base64Alphabet[i] : i \in 1..Len(Base64Alphabet)}
        group(g) == 262144 * Base64Value(s[4 * g + 1])
                    + 4096 * Base64Value(s[4 * g + 2])
                    + 64 * Base64Value(s[4 * g + 3])
                    + Base64Value(s[4 * g + 4])
        shift(p) == IF p = 0 THEN 65536 ELSE IF p = 1 THEN 256 ELSE 1
    IN  IF n % 4 # 0 \/ \E i \in 1..(n - pad) : s[i] \notin alphabet
        THEN [ok |-> FALSE, bytes |-> <<>>]
        ELSE [ok |-> TRUE,
              bytes |-> [k \in 1..(3 * (n \div 4) - pad) |->
                            (group((k - 1) \div 3) \div shift((k - 1) % 3))
                            % 256]]

\* a topic is always taken as it is
TopicBytesRaw(topic) == Bytes(topic)

\* a topic is taken for base64 first and, when that fails, as it is
TopicBytes(topic) ==
    IF Base64Decode(topic).ok THEN Base64Decode(topic).bytes ELSE Bytes(topic)

\* strings.Split(s, sep)
RECURSIVE Split(_, _)
Split(s, sep) ==
    IF \A i \in 1..Len(s) : s[i] # sep
    THEN <<s>>
    ELSE LET k == CHOOSE i \in 1..Len(s) :
                      s[i] = sep /\ \A j \in 1..(i - 1) : s[j] # sep
         IN  <<SubSeq(s, 1, k - 1)>> \o Split(SubSeq(s, k + 1, Len(s)), sep)

\* strings.HasPrefix, on bytes
HasPrefix(b, prefix) ==
    Len(b) >= Len(prefix) /\ SubSeq(b, 1, Len(prefix)) = prefix

\* the status words and the return code each of them stands for
StatusWords ==
    <<[word |->
          <<"o", "k">>,
       code |-> "Ok"],
      [word |->
          <<"f", "u", "n", "c", "t", "i", "o", "n", " ", "n", "o",
            "t", " ", "f", "o", "u", "n", "d">>,
       code |-> "FunctionNotFound"],
      [word |->
          <<"w", "r", "o", "n", "g", " ", "s", "i", "g", "n", "a",
            "t", "u", "r", "e", " ", "f", "o", "r", " ", "f", "u",
            "n", "c", "t", "i", "o", "n">>,
       code |-> "FunctionWrongSignature"],
      [word |->
          <<"c", "o", "n", "t", "r", "a", "c", "t", " ", "n", "o",
            "t", " ", "f", "o", "u", "n", "d">>,
       code |-> "ContractNotFound"],
      [word |->
          <<"u", "s", "e", "r", " ", "e", "r", "r", "o", "r">>,
       code |-> "UserError"],
      [word |->
          <<"o", "u", "t", " ", "o", "f", " ", "g", "a", "s">>,
       code |-> "OutOfGas"],
      [word |->
          <<"a", "c", "c", "o", "u", "n", "t", " ", "c", "o", "l",
            "l", "i", "s", "i", "o", "n">>,
       code |-> "AccountCollision"],
      [word |->
          <<"o", "u", "t", " ", "o", "f", " ", "f", "u", "n", "d",
            "s">>,
       code |-> "OutOfFunds"],
      [word |->
          <<"c", "a", "l", "l", " ", "s", "t", "a", "c", "k", " ",
            "o", "v", "e", "r", "f", "l", "o", "w">>,
       code |-> "CallStackOverflow"],
      [word |->
          <<"c", "o", "n", "t", "r", "a", "c", "t", " ", "i", "n",
            "v", "a", "l", "i", "d">>,
       code |-> "ContractInvalid"],
      [word |->
          <<"e", "x", "e", "c", "u", "t", "i", "o", "n", " ", "f",
            "a", "i", "l", "e", "d">>,
       code |-> "ExecutionFailed"]>>

Ok == "Ok"
UserError == "UserError"
Unknown == "Unknown"

\* the return code of a decoded status word
ReturnCodeOf(word) ==
    IF \E i \in 1..Len(StatusWords) : Bytes(StatusWords[i].word) = word
    THEN StatusWords[CHOOSE i \in 1..Len(StatusWords) :
                        Bytes(StatusWords[i].word) = word].code
    ELSE Unknown

\* the chunks of a data field after its status token
ValuesOf(data) ==
    LET parts == Split(data, "@")
    IN  SubSeq(parts, 3, Len(parts))

\* the data field begins with "@" followed by a status word in hex
HasReturnData(data) ==
    LET parts == Split(data, "@")
    IN  /\ Len(parts) >= 2
        /\ parts[1] = <<>>
        /\ HexDecodeString(parts[2]).ok

\* the return code the status token of a data field stands for
StatusOf(data) ==
    ReturnCodeOf(HexDecodeString(Split(data, "@")[2]).bytes)

signalError == "signalError"
writeLog == "writeLog"

\* "@too much gas provided for processing"
TooMuchGasPrefix ==
    <<"@", "t", "o", "o", " ", "m", "u", "c", "h", " ", "g", "a",
      "s", " ", "p", "r", "o", "v", "i", "d", "e", "d", " ", "f",
      "o", "r", " ", "p", "r", "o", "c", "e", "s", "s", "i", "n",
      "g">>

\* the index of the first TRUE of a sequence of matches
FirstMatch(matches) ==
    CHOOSE i \in 1..Len(matches) :
        matches[i] /\ \A j \in 1..(i - 1) : ~matches[j]

\* whether a sequence of matches holds a TRUE
AnyMatch(matches) == \E i \in 1..Len(matches) : matches[i]

\* the status token of the event decides
SignalErrorCodeFromData(data) ==
    IF HasReturnData(data) THEN StatusOf(data) ELSE UserError

\* rule 2: the status token is ignored
SignalErrorCode(data) == UserError

\* rule 1: a contract result with return data
IsResultWithReturnData(scr) == HasReturnData(scr.Data)

\* rule 2: a signalError event
IsSignalError(event) == event.Identifier = signalError

\* rule 3: a writeLog event whose first topic is the sender
IsWriteLogOfSender(event, sender) ==
    /\ event.Identifier = writeLog
    /\ Len(event.Topics) >= 1
    /\ TopicBytes(event.Topics[1]) = Bytes(sender)

IsTooMuchGasTopic(topic) ==
    HasPrefix(TopicBytes(topic), Bytes(TooMuchGasPrefix))

\* rule 4: a writeLog event that carries the warning
IsTooMuchGasWarning(event) ==
    /\ event.Identifier = writeLog
    /\ \E i \in 1..Len(event.Topics) : IsTooMuchGasTopic(event.Topics[i])

\* for each element of the sequence a rule scans, whether it matches
RuleScan(rule, tr) ==
    CASE rule = "returnData" ->
            [i \in 1..Len(tr.ScResults) |->
                IsResultWithReturnData(tr.ScResults[i])]
      [] rule = "signalError" ->
            [i \in 1..Len(tr.Events) |-> IsSignalError(tr.Events[i])]
      [] rule = "writeLogOfSender" ->
            [i \in 1..Len(tr.Events) |->
                IsWriteLogOfSender(tr.Events[i], tr.Sender)]
      [] rule = "tooMuchGas" ->
            [i \in 1..Len(tr.Events) |-> IsTooMuchGasWarning(tr.Events[i])]

\* whether a rule matches the result
RuleMatches(rule, tr) == AnyMatch(RuleScan(rule, tr))

\* the outcome a matching rule gives, from the first element it matches
RuleOutcome(rule, tr) ==
    CASE rule = "returnData" ->
            LET scr == tr.ScResults[FirstMatch(RuleScan(rule, tr))]
            IN  [ReturnCode |-> StatusOf(scr.Data),
                 ReturnMessage |-> Bytes(scr.ReturnMessage),
                 Values |-> ValuesOf(scr.Data)]
      [] rule = "signalError" ->
            LET event == tr.Events[FirstMatch(RuleScan(rule, tr))]
            IN  [ReturnCode |-> SignalErrorCode(event.Data),
                 ReturnMessage |-> IF Len(event.Topics) >= 1
                                   THEN TopicBytes(event.Topics[1])
                                   ELSE <<>>,
                 Values |-> ValuesOf(event.Data)]
      [] rule = "writeLogOfSender" ->
            LET event == tr.Events[FirstMatch(RuleScan(rule, tr))]
            IN  [ReturnCode |-> Ok,
                 ReturnMessage |-> <<>>,
                 Values |-> ValuesOf(event.Data)]
      [] rule = "tooMuchGas" ->
            LET event == tr.Events[FirstMatch(RuleScan(rule, tr))]
                topic == event.Topics[FirstMatch(
                             [i \in 1..Len(event.Topics) |->
                                 IsTooMuchGasTopic(event.Topics[i])])]
            IN  [ReturnCode |-> Ok,
                 ReturnMessage |-> TopicBytes(topic),
                 Values |-> <<>>]

\* the events are looked at before the contract results
OutcomeRulesEventsFirst ==
    <<"signalError", "writeLogOfSender", "tooMuchGas", "returnData">>

\* the order the rules are tried in
OutcomeRules ==
    <<"returnData", "signalError", "writeLogOfSender", "tooMuchGas">>

\* The outcome of a transaction result: that of the first rule that
\* matches, as a sequence of one outcome, or the empty sequence for the
\* null outcome.
Outcome(tr) ==
    LET matches == [i \in 1..Len(OutcomeRules) |->
                       RuleMatches(OutcomeRules[i], tr)]
    IN  IF AnyMatch(matches)
        THEN <<RuleOutcome(OutcomeRules[FirstMatch(matches)], tr)>>
        ELSE <<>>

\* the data fields of the results and events handed to the parser
DataOk == <<"@", "6", "f", "6", "b">>
DataOk03 == <<"@", "6", "f", "6", "b", "@", "0", "3">>
DataOk0307 ==
    <<"@", "6", "f", "6", "b", "@", "0", "3", "@", "0", "7">>
DataUserError07 ==
    <<"@", "7", "5", "7", "3", "6", "5", "7", "2", "2", "0", "6",
      "5", "7", "2", "7", "2", "6", "f", "7", "2", "@", "0", "7">>
DataOutOfGas ==
    <<"@", "6", "f", "7", "5", "7", "4", "2", "0", "6", "f", "6",
      "6", "2", "0", "6", "7", "6", "1", "7", "3">>
DataUnknownWord == <<"@", "7", "a", "7", "a", "@", "0", "7">>
DataOkPadded == <<"@", "6", "f", "6", "b", "=">>
DataPlain == <<"f", "o", "o">>

Foobar == <<"f", "o", "o", "b", "a", "r">>
SomethingHappened ==
    <<"s", "o", "m", "e", "t", "h", "i", "n", "g", " ", "h", "a",
      "p", "p", "e", "n", "e", "d">>
\* "oops" in base64
OopsBase64 == <<"b", "2", "9", "w", "c", "w", "=", "=">>
Oops == <<"o", "o", "p", "s">>
TooMuchGasWarning ==
    <<"@", "t", "o", "o", " ", "m", "u", "c", "h", " ", "g", "a",
      "s", " ", "p", "r", "o", "v", "i", "d", "e", "d", " ", "f",
      "o", "r", " ", "p", "r", "o", "c", "e", "s", "s", "i", "n",
      "g", ":", " ", "g", "a", "s", " ", "p", "r", "o", "v", "i",
      "d", "e", "d", " ", "=", " ", "5", "9", "6", "3", "8", "4",
      "5", "0", "0", ",", " ", "g", "a", "s", " ", "u", "s", "e",
      "d", " ", "=", " ", "7", "3", "3", "0", "1", "0">>
Alice == <<"a", "l", "i", "c", "e">>
\* "alice" in base64
AliceBase64 == <<"Y", "W", "x", "p", "Y", "2", "U", "=">>

\* transaction.ApiSmartContractResult
ApiSmartContractResults ==
    {[Data |-> DataOk03, ReturnMessage |-> Foobar],
     [Data |-> DataUserError07, ReturnMessage |-> <<>>],
     [Data |-> DataOutOfGas, ReturnMessage |-> <<>>],
     [Data |-> DataPlain, ReturnMessage |-> <<>>]}

\* transaction.Events
Events ==
    {[Identifier |-> signalError, Topics |-> <<SomethingHappened>>,
      Data |-> DataUserError07],
     [Identifier |-> signalError, Topics |-> <<SomethingHappened>>,
      Data |-> DataOk03],
     [Identifier |-> signalError, Topics |-> <<OopsBase64>>,
      Data |-> DataUnknownWord],
     [Identifier |-> writeLog, Topics |-> <<Alice>>, Data |-> DataOk03],
     [Identifier |-> writeLog, Topics |-> <<AliceBase64>>,
      Data |-> DataOkPadded],
     [Identifier |-> writeLog, Topics |-> <<TooMuchGasWarning>>,
      Data |-> DataOk0307],
     [Identifier |-> writeLog, Topics |-> <<SomethingHappened>>,
      Data |-> DataOk]}

\* transaction.ApiTransactionResult
ApiTransactionResults ==
    [ScResults : UNION {[1..n -> ApiSmartContractResults] :
                           n \in 0..MaxScResults},
     Events : UNION {[1..n -> Events] : n \in 0..MaxEvents},
     Sender : {Alice}]

\* ParseResultOutcome(transactionResult, pubkeyConverter)
ParseResultOutcome ==
    /\ pc = "idle"
    /\ op' = "ParseResultOutcome"
    /\ \E tr \in ApiTransactionResults :
       /\ txResult' = tr
       /\ Return([outcome |-> Outcome(tr), err |-> Nil])
    /\ UNCHANGED <<running, txResponses>>
    /\ UNCHANGED <<request, simulation, allowEntireTxPoolFetch, poolTxs, valStatsResponse>>
    /\ UNCHANGED <<tx, txs, shardId, observers, idx, lookups, calls,
                   txsByShardId, pendingShards, totalTxsSent, txHash,
                   observersResponses>>

NextParser ==
    \/ ParseResultOutcome

SpecParser == Init /\ [][NextParser]_vars

-----------------------------------------------------------------------------
(* SimulateTransaction *)

\* the shard of the receiver of the transaction
ShardOfReceiver(t) == ComputeShardId(Decode(t.Receiver).bytes)

\* the keys of data.TransactionSimulationResponseDataCrossShard
SimulationRoles == {"senderShard", "receiverShard"}

\* data.TransactionSimulationResults: what an observer's simulation gives
SimulationResults ==
    [Status : {"ok", "not ok"}, FailReason : {"", "fail reason"}]

\* data.ResponseTransactionSimulation: a result is decoded only from a good
\* reply
SimulationReplies ==
    {[code |-> StatusOK, err |-> Nil, result |-> <<r>>] :
        r \in SimulationResults} \cup
    {r \in [code : {StatusBadRequest, StatusNotFound, StatusRequestTimeout},
            err : {ErrUpstream}, result : {<<>>}] : TRUE}

\* the request to one shard before its first call
SimulationSide(shard, r) ==
    [shard |-> shard, observers |-> r.observers, idx |-> 1,
     done |-> r.err # Nil \/ Len(r.observers) = 0,
     result |-> <<>>,
     err |-> IF r.err # Nil THEN r.err
             ELSE IF Len(r.observers) = 0 THEN ErrSendingRequest ELSE Nil]

\* the request to one shard after a reply of the observer it posted to
SimulationSideAfter(side, reply) ==
    LET verdict == SendVerdict(reply)
    IN  CASE verdict = "success" ->
                [side EXCEPT !.done = TRUE, !.result = reply.result]
          [] verdict = "skip" ->
                IF side.idx = Len(side.observers)
                THEN [side EXCEPT !.done = TRUE, !.err = ErrSendingRequest]
                ELSE [side EXCEPT !.idx = side.idx + 1]
          [] OTHER ->
                [side EXCEPT !.done = TRUE, !.err = reply.err]

\* the entry of a shard in the two-entry result: the observer's result, or
\* for a shard that failed entirely the reason of the failure
SimulationEntry(side) ==
    IF side.result # <<>>
    THEN side.result[1]
    ELSE [Status |-> "", FailReason |-> side.err]

\* a failure on one side fails the simulation
SimulationResponseAllOrNothing(sides) ==
    IF \E role \in DOMAIN sides : sides[role].result = <<>>
    THEN [data |-> [kind |-> "nil", Result |-> <<>>],
          err |-> ErrSendingRequest]
    ELSE [data |-> [kind |-> "crossShard",
                    Result |-> [role \in DOMAIN sides |->
                                   sides[role].result[1]]],
          err |-> Nil]

\* the two-entry result of a cross-shard simulation
SimulationResponseCrossShard(sides) ==
    [data |-> [kind |-> "crossShard",
               Result |-> [role \in DOMAIN sides |->
                              SimulationEntry(sides[role])]],
     err |-> Nil]

\* the result of a simulation whose requests are all done
SimulationResponse(sides) ==
    IF DOMAIN sides = {"senderShard"}
    THEN IF sides["senderShard"].result # <<>>
         THEN [data |-> [kind |-> "singleShard",
                         Result |-> sides["senderShard"].result[1]],
               err |-> Nil]
         ELSE [data |-> [kind |-> "nil", Result |-> <<>>],
               err |-> sides["senderShard"].err]
    ELSE SimulationResponseCrossShard(sides)

SimulationDone(sides) == \A role \in DOMAIN sides : sides[role].done

\* SimulateTransaction: the fields, the two shards and the observers of
\* each of them
SimulateTransaction(t) ==
    /\ pc = "idle"
    /\ op' = "SimulateTransaction"
    /\ tx' = t
    /\ LET chk == checkTransactionFields(t)
           snd == SenderShard(t)
           rcv == ShardOfReceiver(t)
           failed(e) == /\ Return([data |-> [kind |-> "nil", Result |-> <<>>],
                                   err |-> e])
                        /\ UNCHANGED <<simulation, lookups>>
       IN
       IF chk # Nil THEN failed(chk)
       ELSE IF ~snd.ok \/ ~rcv.ok THEN failed(ErrComputeShardId)
       ELSE IF snd.shard = rcv.shard
       THEN \E r \in GetObserversResults(snd.shard) :
            LET sides == [role \in {"senderShard"} |->
                             SimulationSide(snd.shard, r)]
            IN  /\ simulation' = sides
                /\ lookups' = Append(lookups, [shard |-> snd.shard,
                                               err |-> r.err,
                                               observers |-> r.observers])
                /\ IF SimulationDone(sides)
                   THEN Return(SimulationResponse(sides))
                   ELSE pc' = "simulate" /\ UNCHANGED ret
       ELSE \E r1 \in GetObserversResults(snd.shard),
               r2 \in GetObserversResults(rcv.shard) :
            LET sides == [role \in SimulationRoles |->
                             IF role = "senderShard"
                             THEN SimulationSide(snd.shard, r1)
                             ELSE SimulationSide(rcv.shard, r2)]
            IN  /\ simulation' = sides
                /\ lookups' = lookups \o
                      <<[shard |-> snd.shard, err |-> r1.err,
                         observers |-> r1.observers],
                        [shard |-> rcv.shard, err |-> r2.err,
                         observers |-> r2.observers]>>
                /\ IF SimulationDone(sides)
                   THEN Return(SimulationResponse(sides))
                   ELSE pc' = "simulate" /\ UNCHANGED ret
    /\ UNCHANGED <<running, txResponses>>
    /\ UNCHANGED <<request, allowEntireTxPoolFetch, poolTxs,
                   valStatsResponse, txResult>>
    /\ UNCHANGED <<txs, shardId, observers, idx, calls, txsByShardId,
                   pendingShards, totalTxsSent, txHash, observersResponses>>

\* one call of one of the requests that run in parallel: the request posts
\* the transaction to its next observer
SimulateTransactionPost ==
    /\ pc = "simulate"
    /\ op = "SimulateTransaction"
    /\ \E role \in DOMAIN simulation, reply \in SimulationReplies :
       /\ ~simulation[role].done
       /\ LET side == simulation[role]
              sides == [simulation EXCEPT
                           ![role] = SimulationSideAfter(side, reply)]
          IN  /\ calls' = Append(calls,
                     [observer |-> ObserverAt(side.observers, side.idx),
                      path |-> TransactionSimulatePath,
                      body |-> tx, reply |-> reply])
              /\ simulation' = sides
              /\ IF SimulationDone(sides)
                 THEN Return(SimulationResponse(sides))
                 ELSE UNCHANGED <<pc, ret>>
    /\ UNCHANGED <<running, txResponses>>
    /\ UNCHANGED <<request, allowEntireTxPoolFetch, poolTxs,
                   valStatsResponse, txResult>>
    /\ UNCHANGED <<op, tx, txs, shardId, observers, idx, lookups, txsByShardId,
                   pendingShards, totalTxsSent, txHash, observersResponses>>

NextSimulate ==
    \/ \E t \in Transactions : SimulateTransaction(t)
    \/ SimulateTransactionPost

SpecSimulate == Init /\ [][NextSimulate]_vars

-----------------------------------------------------------------------------
(* address.GetValueForKey *)

\* c.Param("address") and c.Param("key")
AddressParams == {"", "ADDR1", "ADDR2", "ADDR3", "ADDR4"}
KeyParams == {"", "KEY1", "KEY2", "KEY3"}

\* what the facade's GetValueForKey returns
ValueForKeyResults ==
    [value : {"VALUE1", "VALUE2", "VALUE3", "VALUE4"}, err : {Nil}]
    \cup [value : {""}, err : {ErrFacade, ErrSendingRequest}]

\* fmt.Sprintf("%s: %s", ErrGetValueForKey.Error(), err.Error())
ValueForKeyError(err) == <<ErrGetValueForKey, err>>

\* c.JSON(status, gin.H{...})
JSON(status, key, value) == [status |-> status, body |-> <<key, value>>]

\* line 112: the guard of the key looks at the address again
KeyGuard(address, key) == address = ""

\* lines 97-123
GetValueForKey ==
    /\ pc = "idle"
    /\ op' = "GetValueForKey"
    /\ \E facade \in BOOLEAN, address \in AddressParams, key \in KeyParams :
       /\ request' = [facade |-> facade, address |-> address, key |-> key]
       /\ IF ~facade
          THEN /\ Return(JSON(StatusInternalServerError, "error",
                              ErrInvalidAppContext))
               /\ UNCHANGED calls
          ELSE IF address = ""
          THEN /\ Return(JSON(StatusBadRequest, "error",
                              ValueForKeyError(ErrEmptyAddress)))
               /\ UNCHANGED calls
          ELSE IF KeyGuard(address, key)
          THEN /\ Return(JSON(StatusBadRequest, "error",
                              ValueForKeyError(ErrEmptyKey)))
               /\ UNCHANGED calls
          ELSE \E r \in ValueForKeyResults :
               /\ calls' = Append(calls, [facade |-> "GetValueForKey",
                                          address |-> address, key |-> key,
                                          reply |-> r])
               /\ IF r.err # Nil
                  THEN Return(JSON(StatusInternalServerError, "error",
                                   ValueForKeyError(r.err)))
                  ELSE Return(JSON(StatusOK, "value", r.value))
    /\ UNCHANGED <<running, txResponses>>
    /\ UNCHANGED <<simulation, allowEntireTxPoolFetch, poolTxs,
                   valStatsResponse, txResult>>
    /\ UNCHANGED <<tx, txs, shardId, observers, idx, lookups, txsByShardId,
                   pendingShards, totalTxsSent, txHash, observersResponses>>

NextAddress ==
    \/ GetValueForKey

SpecAddress == Init /\ [][NextAddress]_vars

-----------------------------------------------------------------------------
(* vmValues: GetVmValueAsHexBytes, GetVmValueAsString, GetVmValueAsBigInt *)

ErrBind == "invalid request body"
ErrNotHex == "is not a valid hex string"
ErrAsHexBytes == "get vm value as hex bytes"
ErrAsString == "get vm value as string"
ErrAsBigInt == "get vm value as big int"
ErrNotBigInt == "could not be converted to a big int"

\* VmValueRequest.Args: up to two arguments, each good hex, of odd length,
\* or with a character that is no hex digit
ArgStrings == {<<"0", "a">>, <<"0">>, <<"z", "z">>}
ArgLists == {<<>>} \cup {<<a>> : a \in ArgStrings}
                   \cup {<<a, b>> : a \in ArgStrings, b \in ArgStrings}

\* the requests: the facade of the context, whether the body binds, and
\* the fields of VmValueRequest
VmValueRequests ==
    [facade : BOOLEAN, bound : BOOLEAN, ScAddress : {"SC1"},
     FuncName : {"get"}, Args : ArgLists]

\* what the facade's GetVmValue returns: the data, or an error
VmValueDatas ==
    {<<"1", "2">>, <<"-", "7">>, <<"+", "0", "5">>, <<"-", "0">>,
     <<"a", "b">>, <<"1", "_", "0">>, <<"-">>, <<>>}
VmValueResults ==
    [data : VmValueDatas, err : {Nil}]
    \cup [data : {<<>>}, err : {ErrFacade, ErrSendingRequest}]

\* lines 41-50: the arguments before the first that is no hex string
HexArgs(args) ==
    {i \in 1..Len(args) : \A j \in 1..i : HexDecodeString(args[j]).ok}

\* lines 28-58; the error is <<>> for nil; called tells whether line 52 ran
vmValueFromAccount(req, reply) ==
    IF ~req.facade
    THEN [data |-> <<>>, status |-> StatusInternalServerError,
          err |-> <<ErrInvalidAppContext>>, called |-> FALSE]
    ELSE IF ~req.bound
    THEN [data |-> <<>>, status |-> StatusBadRequest,
          err |-> <<ErrBind>>, called |-> FALSE]
    ELSE IF Cardinality(HexArgs(req.Args)) < Len(req.Args)
    THEN [data |-> <<>>, status |-> StatusBadRequest,
          err |-> <<req.Args[Cardinality(HexArgs(req.Args)) + 1], ErrNotHex>>,
          called |-> FALSE]
    ELSE IF reply.err # Nil
    THEN [data |-> <<>>, status |-> StatusBadRequest,
          err |-> <<reply.err>>, called |-> TRUE]
    ELSE [data |-> reply.data, status |-> StatusOK, err |-> <<>>,
          called |-> TRUE]

\* line 52: the call of the facade with the decoded arguments
FacadeGetVmValue(resType, req, reply) ==
    [facade |-> "GetVmValue", resType |-> resType,
     ScAddress |-> req.ScAddress, FuncName |-> req.FuncName,
     argsBuff |-> [i \in 1..Len(req.Args) |->
                      HexDecodeString(req.Args[i]).bytes],
     reply |-> reply]

DecimalDigits == {"0", "1", "2", "3", "4", "5", "6", "7", "8", "9"}

\* the text without its zeros in front
RECURSIVE TrimZeros(_)
TrimZeros(digits) ==
    IF Len(digits) > 1 /\ digits[1] = "0"
    THEN TrimZeros(SubSeq(digits, 2, Len(digits)))
    ELSE digits

\* big.NewInt(0).SetString(s, 10): an optional sign and then one decimal
\* digit or more, nothing else
SetString(s) ==
    LET signed == Len(s) > 0 /\ s[1] \in {"+", "-"}
        digits == IF signed THEN SubSeq(s, 2, Len(s)) ELSE s
    IN  IF Len(digits) = 0 \/ \E i \in 1..Len(digits) : digits[i] \notin DecimalDigits
        THEN [ok |-> FALSE, neg |-> FALSE, abs |-> <<>>]
        ELSE [ok |-> TRUE,
              neg |-> signed /\ s[1] = "-" /\ TrimZeros(digits) # <<"0">>,
              abs |-> TrimZeros(digits)]

\* value.String()
BigIntString(value) == IF value.neg THEN <<"-">> \o value.abs ELSE value.abs

\* the request is kept and the facade is called when line 52 is reached
VmValueRequested(resType, req, reply) ==
    /\ pc = "idle"
    /\ request' = req
    /\ calls' = IF vmValueFromAccount(req, reply).called
                THEN Append(calls, FacadeGetVmValue(resType, req, reply))
                ELSE calls
    /\ UNCHANGED <<running, txResponses>>
    /\ UNCHANGED <<simulation, allowEntireTxPoolFetch, poolTxs,
                   valStatsResponse, txResult>>
    /\ UNCHANGED <<tx, txs, shardId, observers, idx, lookups, txsByShardId,
                   pendingShards, totalTxsSent, txHash, observersResponses>>

\* lines 61-69
GetVmValueAsHexBytes ==
    /\ op' = "GetVmValueAsHexBytes"
    /\ \E req \in VmValueRequests, reply \in VmValueResults :
       LET v == vmValueFromAccount(req, reply) IN
       /\ VmValueRequested("hex", req, reply)
       /\ IF Len(v.err) # 0
          THEN Return(JSON(v.status, "error", <<ErrAsHexBytes>> \o v.err))
          ELSE Return(JSON(StatusOK, "data", HexEncodeToString(Bytes(v.data))))

\* lines 72-80
GetVmValueAsString ==
    /\ op' = "GetVmValueAsString"
    /\ \E req \in VmValueRequests, reply \in VmValueResults :
       LET v == vmValueFromAccount(req, reply) IN
       /\ VmValueRequested("string", req, reply)
       /\ IF Len(v.err) # 0
          THEN Return(JSON(v.status, "error", <<ErrAsString>> \o v.err))
          ELSE Return(JSON(StatusOK, "data", v.data))

\* lines 83-97: the answer to data that is no decimal integer is sent with
\* the status vmValueFromAccount returned
GetVmValueAsBigInt ==
    /\ op' = "GetVmValueAsBigInt"
    /\ \E req \in VmValueRequests, reply \in VmValueResults :
       LET v == vmValueFromAccount(req, reply)
           value == SetString(v.data)
       IN
       /\ VmValueRequested("int", req, reply)
       /\ IF Len(v.err) # 0
          THEN Return(JSON(v.status, "error", <<ErrAsBigInt>> \o v.err))
          ELSE IF ~value.ok
          THEN Return(JSON(v.status, "error", <<v.data, ErrNotBigInt>>))
          ELSE Return(JSON(StatusOK, "data", BigIntString(value)))

NextVmValues ==
    \/ GetVmValueAsHexBytes
    \/ GetVmValueAsString
    \/ GetVmValueAsBigInt

SpecVmValues == Init /\ [][NextVmValues]_vars

-----------------------------------------------------------------------------
(* SendTransaction, two calls at the same time *)

\* the transactions of the concurrent calls
ConcurrentTxs ==
    {t \in Transactions :
        /\ t.Receiver = <<"0","0">> /\ t.Signature = <<"a","b">>
        /\ t.ChainID = "1" /\ t.Version = 1 /\ t.Value = <<"1","0">>}

\* the replies of the observers to the concurrent calls
ConcurrentReplies ==
    {r \in SendReplies :
        \/ r.code = StatusOK /\ r.err = Nil
        \/ r.code = StatusNotFound /\ r.err = ErrUpstream
        \/ r.code = StatusBadRequest /\ r.err = ErrUpstream}

\* one response is shared by every call
ResponseShared(id) == "A"

\* line 123: every iteration allocates the response its call decodes into,
\* so the response belongs to the request
ResponseOwner(id) == id

\* the request that is not id
OtherRequest(id) == CHOOSE other \in RequestIds : other # id

\* lines 101-120 in the call id: the fields, the shard and its observers
ConcurrentSendTransaction(id, t) ==
    /\ running[id].pc = "idle"
    /\ LET chk == checkTransactionFields(t)
           sh == SenderShard(t)
           returned(r) == running' =
               [running EXCEPT ![id] = [@ EXCEPT !.pc = "done", !.tx = t,
                                                 !.ret = r]]
       IN
       IF chk # Nil
       THEN returned([status |-> StatusBadRequest, hash |-> "", err |-> chk])
       ELSE IF ~Decode(t.Sender).ok
       THEN returned([status |-> StatusBadRequest, hash |-> "", err |-> ErrDecode])
       ELSE IF ~sh.ok
       THEN returned([status |-> StatusInternalServerError, hash |-> "",
                      err |-> ErrComputeShardId])
       ELSE \E r \in GetObserversResults(sh.shard) :
            LET looked == [running[id] EXCEPT
                              !.tx = t,
                              !.observers = r.observers,
                              !.lookups = <<[shard |-> sh.shard, err |-> r.err,
                                             observers |-> r.observers]>>]
            IN  running' = [running EXCEPT ![id] =
                   IF r.err # Nil
                   THEN [looked EXCEPT !.pc = "done",
                            !.ret = [status |-> StatusInternalServerError,
                                     hash |-> "", err |-> r.err]]
                   ELSE IF Len(r.observers) = 0
                   THEN [looked EXCEPT !.pc = "done", !.ret = SendExhausted]
                   ELSE [looked EXCEPT !.pc = "loop"]]
    /\ UNCHANGED txResponses
    /\ UNCHANGED <<pc, op, tx, txs, shardId, observers, idx, lookups, calls,
                   txsByShardId, pendingShards, totalTxsSent, txHash,
                   observersResponses, ret>>
    /\ UNCHANGED <<allowEntireTxPoolFetch, poolTxs, valStatsResponse,
                   txResult, simulation, request>>

\* lines 123-125 in the call id: the response is allocated and the observer
\* is posted to; the reply is decoded into the response
ConcurrentPost(id) ==
    /\ running[id].pc = "loop"
    /\ \E reply \in ConcurrentReplies :
       LET r == running[id] IN
       /\ running' = [running EXCEPT ![id] =
             [r EXCEPT !.pc = "posted",
                       !.overlapped =
                           running[OtherRequest(id)].pc = "posted",
                       !.calls = Append(r.calls,
                           [observer |-> ObserverAt(r.observers, r.idx),
                            path |-> TransactionSendPath,
                            body |-> r.tx, reply |-> reply])]]
       /\ txResponses' = [txResponses EXCEPT ![ResponseOwner(id)] = reply.hash]
    /\ UNCHANGED <<pc, op, tx, txs, shardId, observers, idx, lookups, calls,
                   txsByShardId, pendingShards, totalTxsSent, txHash,
                   observersResponses, ret>>
    /\ UNCHANGED <<allowEntireTxPoolFetch, poolTxs, valStatsResponse,
                   txResult, simulation, request>>

\* lines 126-145 in the call id: what the loop does with the reply
ConcurrentDecide(id) ==
    /\ running[id].pc = "posted"
    /\ LET r == running[id]
           reply == r.calls[Len(r.calls)].reply
           verdict == SendVerdict(reply)
       IN  running' = [running EXCEPT ![id] =
              CASE verdict = "success" ->
                      [r EXCEPT !.pc = "done",
                                !.ret = [status |-> reply.code,
                                         hash |-> txResponses[ResponseOwner(id)],
                                         err |-> Nil]]
                [] verdict = "skip" ->
                      IF r.idx = Len(r.observers)
                      THEN [r EXCEPT !.pc = "done", !.idx = r.idx + 1,
                                     !.ret = SendExhausted]
                      ELSE [r EXCEPT !.pc = "loop", !.idx = r.idx + 1]
                [] OTHER ->
                      [r EXCEPT !.pc = "done",
                                !.ret = [status |-> reply.code, hash |-> "",
                                         err |-> reply.err]]]
    /\ UNCHANGED txResponses
    /\ UNCHANGED <<pc, op, tx, txs, shardId, observers, idx, lookups, calls,
                   txsByShardId, pendingShards, totalTxsSent, txHash,
                   observersResponses, ret>>
    /\ UNCHANGED <<allowEntireTxPoolFetch, poolTxs, valStatsResponse,
                   txResult, simulation, request>>

NextConcurrent ==
    \/ \E id \in RequestIds, t \in ConcurrentTxs :
          ConcurrentSendTransaction(id, t)
    \/ \E id \in RequestIds : ConcurrentPost(id)
    \/ \E id \in RequestIds : ConcurrentDecide(id)

SpecConcurrent == Init /\ [][NextConcurrent]_vars

-----------------------------------------------------------------------------
(* Properties *)

\* a reply that is HTTP 200 without a transport error
ReplyOK(r) == r.code = StatusOK /\ r.err = Nil

\* a reply whose status says the observer is unavailable
ObserverUnavailable(r) == r.code \in {StatusNotFound, StatusRequestTimeout}

\* a reply that carries a transport error
TransportError(r) == r.err # Nil

\* the observers a send or cost request may post to, in order
Candidates ==
    IF op = "TransactionCostRequest"
    THEN SelectSeq(observers, LAMBDA o : o.ShardId # MetachainShardId)
    ELSE observers

\* the request returned right after its i-th call
ReturnedAfter(i) == pc = "done" /\ Len(calls) = i

\* C1: SendTransaction returns (200, the reply's txHash, no error) as soon
\* as an observer replies 200 without error; no later observer is
\* contacted, so at most one observer accepts the transaction.
C1_SuccessReturnsAtOnce ==
    op = "SendTransaction" =>
        /\ \A i \in 1..Len(calls) :
              ReplyOK(calls[i].reply) =>
                 /\ ReturnedAfter(i)
                 /\ ret = [status |-> StatusOK, hash |-> calls[i].reply.hash,
                           err |-> Nil]
        /\ Cardinality({i \in 1..Len(calls) : ReplyOK(calls[i].reply)}) <= 1

C1_Witness ==
    /\ op = "SendTransaction"
    /\ pc = "done"
    /\ Len(observers) = 2
    /\ Len(calls) = 1
    /\ ReplyOK(calls[1].reply)

\* C2: SendTransaction does not return on a 404 or 408 reply while the list
\* has another observer: that observer is contacted next; observers
\* [O1 -> 404, O2 -> 200 with hash H] give (200, H).
C2_UnavailableSkipsToNext ==
    op = "SendTransaction" =>
        /\ \A i \in 1..Len(calls) :
              (ObserverUnavailable(calls[i].reply) /\ i < Len(observers)) =>
                 \/ pc = "loop" /\ Len(calls) = i /\ idx = i + 1
                 \/ Len(calls) > i /\ calls[i + 1].observer = observers[i + 1]
        /\ ( /\ pc = "done"
             /\ Len(calls) = 2
             /\ calls[1].reply.code = StatusNotFound
             /\ ReplyOK(calls[2].reply) )
           => ret = [status |-> StatusOK, hash |-> calls[2].reply.hash,
                     err |-> Nil]

C2_Witness ==
    /\ op = "SendTransaction"
    /\ pc = "done"
    /\ Len(calls) = 2
    /\ calls[1].reply.code = StatusNotFound
    /\ ReplyOK(calls[2].reply)
    /\ ret.hash = "HASH2"

\* C3: in SendTransaction and TransactionCostRequest a reply that is
\* neither a success nor a 404/408 makes the call return that failure at
\* once; no later observer is contacted.
C3_FailureReturnsAtOnce ==
    op \in {"SendTransaction", "TransactionCostRequest"} =>
        \A i \in 1..Len(calls) :
           LET r == calls[i].reply IN
           (~ReplyOK(r) /\ ~ObserverUnavailable(r)) =>
              /\ ReturnedAfter(i)
              /\ op = "SendTransaction" =>
                    ret = [status |-> r.code, hash |-> "", err |-> r.err]
              /\ op = "TransactionCostRequest" =>
                    ret = [cost |-> <<>>, err |-> r.err]

C3_Witness ==
    /\ op = "SendTransaction"
    /\ pc = "done"
    /\ Len(observers) = 2
    /\ Len(calls) = 1
    /\ calls[1].reply.code = StatusInternalServerError
    /\ calls[1].reply.err = ErrUpstream

\* C4, as claimed: a transport error is absorbed like a 404/408 reply; the
\* call does not return after such a reply while an observer is left.
C4_TransportErrorAbsorbed ==
    op \in {"SendTransaction", "TransactionCostRequest"} =>
        \A i \in 1..Len(calls) :
           LET r == calls[i].reply IN
           ((TransportError(r) \/ ObserverUnavailable(r)) /\ i < Len(Candidates))
              => ~ReturnedAfter(i)

\* C4, amended: the status alone decides. A 404/408 reply is absorbed with
\* or without a transport error; a transport error with another status
\* ends the call; observers are left out only after a reply whose status
\* is neither 404 nor 408.
C4_StatusDecidesAbsorption ==
    op \in {"SendTransaction", "TransactionCostRequest"} =>
        \A i \in 1..Len(calls) :
           LET r == calls[i].reply IN
           /\ (ObserverUnavailable(r) /\ i < Len(Candidates)) => ~ReturnedAfter(i)
           /\ (TransportError(r) /\ ~ObserverUnavailable(r)) => ReturnedAfter(i)
           /\ (ReturnedAfter(i) /\ i < Len(Candidates)) => ~ObserverUnavailable(r)

C4_Witness ==
    /\ op = "TransactionCostRequest"
    /\ Len(calls) = 2
    /\ calls[1].reply.code = StatusRequestTimeout
    /\ TransportError(calls[1].reply)

\* C5: when every observer of the list replied 404 or 408, or the list is
\* empty, SendTransaction returns (500, empty hash, ErrSendingRequest) and
\* has contacted every observer of the list.
C5_ExhaustedGivesSendingRequest ==
    ( /\ op = "SendTransaction"
      /\ pc = "done"
      /\ Len(lookups) = 1
      /\ lookups[1].err = Nil
      /\ \A i \in 1..Len(calls) : ObserverUnavailable(calls[i].reply) )
    => /\ ret = [status |-> StatusInternalServerError, hash |-> "",
                 err |-> ErrSendingRequest]
       /\ Len(calls) = Len(lookups[1].observers)
       /\ \A i \in 1..Len(calls) : calls[i].observer = lookups[1].observers[i]

C5_Witness ==
    /\ op = "SendTransaction"
    /\ pc = "done"
    /\ Len(calls) = 2
    /\ \A i \in 1..Len(calls) : ObserverUnavailable(calls[i].reply)

\* C6: SendTransaction contacts the observers in the order GetObservers
\* returned them, each at most once, and contacts observer k+1 only after
\* observers 1..k all replied 404 or 408.
C6_RetryOrder ==
    (op = "SendTransaction" /\ Len(calls) > 0) =>
        /\ Len(lookups) = 1
        /\ Len(calls) <= Len(lookups[1].observers)
        /\ \A i \in 1..Len(calls) :
              /\ calls[i].observer = lookups[1].observers[i]
              /\ calls[i].path = TransactionSendPath
              /\ calls[i].body = tx
              /\ i < Len(calls) => ObserverUnavailable(calls[i].reply)
        /\ \A i, j \in 1..Len(calls) :
              i # j => calls[i].observer # calls[j].observer

C6_Witness ==
    /\ op = "SendTransaction"
    /\ Len(calls) = 2
    /\ calls[1].observer = Observer(shardId, 1)
    /\ calls[2].observer = Observer(shardId, 2)

\* the sender, the receiver and the signature of t decode
FieldsDecode(t) ==
    /\ Decode(t.Sender).ok
    /\ Decode(t.Receiver).ok
    /\ HexDecodeString(t.Signature).ok

\* C7: SendTransaction asks for the observers of
\* computeShardId(decode(sender)) and contacts observers of that list only;
\* when the shard computation or the observer lookup fails it returns 500
\* with that error and has contacted nobody.
C7_RoutedBySender ==
    op = "SendTransaction" =>
        LET sh == ComputeShardId(Decode(tx.Sender).bytes) IN
        /\ Len(lookups) <= 1
        /\ \A k \in 1..Len(lookups) : sh.ok /\ lookups[k].shard = sh.shard
        /\ \A i \in 1..Len(calls) :
              /\ calls[i].observer.ShardId = sh.shard
              /\ \E j \in 1..Len(lookups[1].observers) :
                    calls[i].observer = lookups[1].observers[j]
        /\ (pc = "done" /\ FieldsDecode(tx) /\ ~sh.ok) =>
              /\ ret = [status |-> StatusInternalServerError, hash |-> "",
                        err |-> ErrComputeShardId]
              /\ calls = <<>>
        /\ (Len(lookups) = 1 /\ lookups[1].err # Nil) =>
              /\ pc = "done"
              /\ ret = [status |-> StatusInternalServerError, hash |-> "",
                        err |-> lookups[1].err]
              /\ calls = <<>>

C7_Witness ==
    /\ op = "SendTransaction"
    /\ tx.Sender = <<"0","1">>
    /\ tx.Receiver = <<"0","0">>
    /\ Len(calls) = 2
    /\ calls[2].observer.ShardId = 1

\* C8: when the sender, the receiver or the signature does not decode,
\* SendTransaction returns 400 with an InvalidTxFields error,
\* TransactionCostRequest returns that error, and no observer is contacted.
C8_UndecodableFieldsContactNobody ==
    ( /\ op \in {"SendTransaction", "TransactionCostRequest"}
      /\ ~FieldsDecode(tx) )
    => /\ pc = "done"
       /\ calls = <<>>
       /\ ret.err \in InvalidTxFieldsErrors
       /\ op = "SendTransaction" =>
             ret.status = StatusBadRequest /\ ret.hash = ""
       /\ op = "TransactionCostRequest" => ret.cost = <<>>

C8_Witness ==
    /\ op = "TransactionCostRequest"
    /\ pc = "done"
    /\ Decode(tx.Sender).ok
    /\ Decode(tx.Receiver).ok
    /\ ~HexDecodeString(tx.Signature).ok
    /\ ret.err = ErrInvalidSignatureHex

\* a decimal string of a non-negative integer
ValueIsNonNegativeInteger(v) ==
    /\ Len(v) > 0
    /\ \A i \in 1..Len(v) :
          v[i] \in {"0","1","2","3","4","5","6","7","8","9"}

\* C9: SendTransaction returns 400 with an error and contacts no observer
\* for a transaction whose chainID is empty, whose version is below 1 or
\* whose value is not a non-negative integer.
C9_ChainVersionValueRejected ==
    ( /\ op = "SendTransaction"
      /\ \/ tx.ChainID = ""
         \/ tx.Version < 1
         \/ ~ValueIsNonNegativeInteger(tx.Value) )
    => /\ pc = "done"
       /\ ret.status = StatusBadRequest
       /\ ret.err # Nil
       /\ calls = <<>>

\* field validation of the write paths, every field of it
FieldsValid(t) ==
    /\ FieldsDecode(t)
    /\ t.ChainID # ""
    /\ t.Version >= 1
    /\ ValueIsNonNegativeInteger(t.Value)

\* C10: SendMultipleTransactions never posts a transaction that fails field
\* validation, and when no transaction of the batch passes it the call
\* returns ErrNoValidTransactionToSend and has contacted nobody.
C10_InvalidNeverPosted ==
    op = "SendMultipleTransactions" =>
        /\ \A i \in 1..Len(calls) :
              \A k \in 1..Len(calls[i].body) : FieldsValid(calls[i].body[k])
        /\ (pc = "done" /\ \A k \in 1..Len(txs) : ~FieldsValid(txs[k])) =>
              /\ ret.err = ErrNoValidTransactionToSend
              /\ calls = <<>>

\* the calls made to observers of shard s, in order
CallsOfShard(s) == SelectSeq(calls, LAMBDA c : c.observer.ShardId = s)

\* the observer lists GetObservers answered for shard s, in order
LookupsOfShard(s) == SelectSeq(lookups, LAMBDA l : l.shard = s)

\* the sum of numOfTxs over the replies of cs that are 200 without error
RECURSIVE AcceptedSum(_)
AcceptedSum(cs) ==
    IF cs = <<>> THEN 0
    ELSE (IF ReplyOK(Head(cs).reply) THEN Head(cs).reply.numOfTxs ELSE 0)
         + AcceptedSum(Tail(cs))

\* C11: SendMultipleTransactions tries the observers of every shard in the
\* order GetObservers gave them and stops the shard at the first reply that
\* is 200 without error, and not before: at most one observer accepts a
\* shard's batch, and the total returned without error is the sum, over
\* the shards, of the numOfTxs of that reply.
C11_FirstSuccessPerShard ==
    op = "SendMultipleTransactions" =>
        /\ \A s \in ShardIDs :
              LET cs == CallsOfShard(s)
                  ls == LookupsOfShard(s)
              IN  /\ Len(ls) <= 1
                  /\ cs # <<>> => Len(ls) = 1 /\ Len(cs) <= Len(ls[1].observers)
                  /\ \A i \in 1..Len(cs) :
                        /\ cs[i].observer = ls[1].observers[i]
                        /\ ReplyOK(cs[i].reply) => i = Len(cs)
                  /\ (pc = "done" /\ ret.err = Nil /\ Len(ls) = 1) =>
                        \/ cs # <<>> /\ ReplyOK(cs[Len(cs)].reply)
                        \/ Len(cs) = Len(ls[1].observers)
        /\ (pc = "done" /\ ret.err = Nil) => ret.numOfTxs = AcceptedSum(calls)

\* two shards were served, one of them by its second observer
C11_Witness ==
    /\ op = "SendMultipleTransactions"
    /\ pc = "done"
    /\ ret.err = Nil
    /\ ret.numOfTxs = 2
    /\ Len(calls) = 3
    /\ \E i \in 1..Len(calls) : ~ReplyOK(calls[i].reply)
    /\ \E i, j \in 1..Len(calls) :
          /\ calls[i].observer.ShardId # calls[j].observer.ShardId
          /\ ReplyOK(calls[i].reply) /\ calls[i].reply.numOfTxs = 1
          /\ ReplyOK(calls[j].reply) /\ calls[j].reply.numOfTxs = 1

\* every observer GetObservers gave for shard s was posted to and failed
ShardFailed(s) ==
    /\ Len(LookupsOfShard(s)) = 1
    /\ LookupsOfShard(s)[1].err = Nil
    /\ Len(CallsOfShard(s)) = Len(LookupsOfShard(s)[1].observers)
    /\ \A i \in 1..Len(CallsOfShard(s)) : ~ReplyOK(CallsOfShard(s)[i].reply)

\* C12: SendMultipleTransactions, when every observer of one shard fails:
\* the shard adds nothing to the total, every other shard that has a batch
\* is still looked up and served, and the call returns without error
\* (the lookup of another shard failing is the one other way to an error).
C12_FailedShardAddsZero ==
    \A s \in ShardIDs :
        ( /\ op = "SendMultipleTransactions"
          /\ pc = "done"
          /\ ShardFailed(s)
          /\ \A i \in 1..Len(lookups) : lookups[i].err = Nil )
        => /\ ret.err = Nil
           /\ \A o \in DOMAIN txsByShardId : Len(LookupsOfShard(o)) = 1
           /\ ret.numOfTxs =
                 AcceptedSum(SelectSeq(calls, LAMBDA c : c.observer.ShardId # s))

\* both observers of one shard failed and the other shard was served after
C12_Witness ==
    /\ op = "SendMultipleTransactions"
    /\ pc = "done"
    /\ ret = [numOfTxs |-> 1, err |-> Nil]
    /\ Len(calls) = 3
    /\ \E s \in ShardIDs :
          /\ ShardFailed(s)
          /\ calls[1].observer.ShardId = s
          /\ calls[2].observer.ShardId = s
          /\ calls[3].observer.ShardId # s
          /\ ReplyOK(calls[3].reply)

\* the submitted indices of the transactions of the batches that were
\* accepted: transaction k of txs is in the accepted batch of its shard
AcceptedIndices ==
    {k \in 1..Len(txs) :
        /\ checkTransactionFields(txs[k]) = Nil
        /\ \E i \in 1..Len(calls) :
              /\ ReplyOK(calls[i].reply)
              /\ calls[i].reply.numOfTxs = Len(calls[i].body)
              /\ TxInShard(txs[k], calls[i].observer.ShardId)}

\* C13: SendMultipleTransactions returns, next to the accepted count, a map
\* of hashes keyed by the index each transaction has in the submitted
\* batch, with a key for every accepted transaction of every shard.
C13_ReturnsIndexKeyedHashes ==
    (op = "SendMultipleTransactions" /\ pc = "done" /\ ret.err = Nil) =>
        /\ "txsHashes" \in DOMAIN ret
        /\ AcceptedIndices \subseteq {k + 1 : k \in DOMAIN ret.txsHashes}

\* every call posts the batch of one shard to an observer that GetObservers
\* answered for that shard
BatchesPostedToOwnShard ==
    \A i \in 1..Len(calls) :
        \E s \in DOMAIN txsByShardId :
            /\ calls[i].body = txsByShardId[s]
            /\ Len(LookupsOfShard(s)) = 1
            /\ \E j \in 1..Len(LookupsOfShard(s)[1].observers) :
                  calls[i].observer = LookupsOfShard(s)[1].observers[j]

\* every batch is made of the validated transactions whose sender is of the
\* batch's shard, in the order they were submitted
BatchesKeepOrder ==
    \A s \in DOMAIN txsByShardId :
        /\ txsByShardId[s] # <<>>
        /\ txsByShardId[s] =
              SelectSeq(ValidTxs(txs),
                        LAMBDA t : SenderShard(t).ok /\ SenderShard(t).shard = s)

\* C14 as stated: SendMultipleTransactions places every transaction that
\* passed validation in exactly one batch, the batch of its sender's
\* shard, in submission order, and posts a batch only to observers the
\* pool returned for that shard.
C14_EveryValidTxInOneBatch ==
    (op = "SendMultipleTransactions" /\ ValidTxs(txs) # <<>>) =>
        /\ BatchesKeepOrder
        /\ BatchesPostedToOwnShard
        /\ \A k \in 1..Len(ValidTxs(txs)) :
              \E s \in DOMAIN txsByShardId :
                  /\ SenderShard(ValidTxs(txs)[k]).ok
                  /\ SenderShard(ValidTxs(txs)[k]).shard = s

\* C14 amended: every validated transaction whose sender's shard can be
\* computed is in exactly one batch, the batch of that shard, in submission
\* order; a validated transaction whose shard computation fails is in no
\* batch; a batch is posted only to observers the pool returned for its
\* shard.
C14_RoutableTxInOneBatch ==
    (op = "SendMultipleTransactions" /\ ValidTxs(txs) # <<>>) =>
        /\ BatchesKeepOrder
        /\ BatchesPostedToOwnShard
        /\ \A k \in 1..Len(ValidTxs(txs)) :
              LET t == ValidTxs(txs)[k] IN
              /\ SenderShard(t).ok =>
                    /\ SenderShard(t).shard \in DOMAIN txsByShardId
                    /\ \A s \in DOMAIN txsByShardId :
                          (\E j \in 1..Len(txsByShardId[s]) :
                               txsByShardId[s][j] = t)
                          => s = SenderShard(t).shard
              /\ ~SenderShard(t).ok =>
                    \A s \in DOMAIN txsByShardId :
                        \A j \in 1..Len(txsByShardId[s]) : txsByShardId[s][j] # t

\* a validated transaction was left out and the other one was posted
C14_Witness ==
    /\ op = "SendMultipleTransactions"
    /\ pc = "done"
    /\ Len(ValidTxs(txs)) = 2
    /\ \E k \in 1..2 : ~SenderShard(ValidTxs(txs)[k]).ok
    /\ \E i \in 1..Len(calls) :
          /\ Len(calls[i].body) = 1
          /\ ReplyOK(calls[i].reply)

\* C15: TransactionCostRequest never posts to an observer of the metachain:
\* it walks the observers GetAllObservers gave in order, leaving out those
\* of the metachain, returns the cost of the first reply that is 200
\* without error, and returns ErrSendingRequest when every observer it
\* could post to was unavailable, also when there was none to post to.
C15_MetachainNeverAsked ==
    op = "TransactionCostRequest" =>
        /\ Len(calls) <= Len(Candidates)
        /\ \A i \in 1..Len(calls) :
              /\ calls[i].observer.ShardId # MetachainShardId
              /\ calls[i].observer = Candidates[i]
              /\ calls[i].path = TransactionCostPath
              /\ ReplyOK(calls[i].reply) =>
                    /\ ReturnedAfter(i)
                    /\ ret.err = Nil
                    /\ ret.cost # <<>>
                    /\ calls[i].reply.txCost < Pow2(CostBits - 1) =>
                          ret.cost = Digits(calls[i].reply.txCost)
        /\ ( /\ pc = "done"
             /\ checkTransactionFields(tx) = Nil
             /\ \A i \in 1..Len(calls) : ObserverUnavailable(calls[i].reply) )
           => /\ Len(calls) = Len(Candidates)
              /\ ret = [cost |-> <<>>, err |-> ErrSendingRequest]

\* a metachain observer came first in the list, the next observer was
\* unavailable and the last one gave the cost
C15_Witness ==
    /\ op = "TransactionCostRequest"
    /\ pc = "done"
    /\ Len(observers) = 3
    /\ observers[1].ShardId = MetachainShardId
    /\ Len(calls) = 2
    /\ ObserverUnavailable(calls[1].reply)
    /\ ReplyOK(calls[2].reply)
    /\ ret.err = Nil

\* a status query has returned
StatusReturned == op = "GetTransactionStatus" /\ pc = "done"

\* the calls an observer answered, and those answered with a status other
\* than "unknown"
Answers == {i \in 1..Len(calls) : calls[i].reply.err = Nil}
KnownAnswers == {i \in Answers : calls[i].reply.status # UnknownStatusTx}

\* the shards an observer of which gave a status other than "unknown"
KnownShards == {calls[i].observer.ShardId : i \in KnownAnswers}

\* C16: GetTransactionStatus ignores every "unknown" reply: when every
\* reply it collected is "unknown", or no observer answered, it returns
\* the status "unknown" and no error.
C16_UnknownIgnored ==
    (StatusReturned /\ KnownAnswers = {}) =>
        ret = [status |-> UnknownStatusTx, err |-> Nil]

\* observers of two shards both answered "unknown"
C16_Witness ==
    /\ StatusReturned
    /\ Len(calls) = 2
    /\ Answers = {1, 2}
    /\ KnownAnswers = {}
    /\ calls[1].observer.ShardId # calls[2].observer.ShardId
    /\ ret.status = UnknownStatusTx

C18_ShardsDisagree ==
    \A i, j \in KnownAnswers :
        ( /\ StatusReturned
          /\ calls[i].observer.ShardId # calls[j].observer.ShardId
          /\ calls[i].reply.status # calls[j].reply.status )
        => /\ ret.err = ErrCannotGetTransactionStatus
           /\ ret.status \notin {calls[i].reply.status, calls[j].reply.status}

\* shard 0 said "executed" and shard 1 said "invalid"
C18_Witness ==
    /\ StatusReturned
    /\ \E i, j \in KnownAnswers :
          /\ calls[i].observer.ShardId = 0
          /\ calls[i].reply.status = "executed"
          /\ calls[j].observer.ShardId = 1
          /\ calls[j].reply.status = "invalid"
    /\ ret.err = ErrCannotGetTransactionStatus

\* C19: when every observer that answered reports the same status other
\* than "unknown", GetTransactionStatus returns that status and no error,
\* whichever shards the answers came from.
C19_AgreementReturned ==
    ( /\ StatusReturned
      /\ Answers # {}
      /\ KnownAnswers = Answers
      /\ \A i, j \in Answers : calls[i].reply.status = calls[j].reply.status )
    => \E i \in Answers : ret = [status |-> calls[i].reply.status, err |-> Nil]

C21_OneStatusPerShard ==
    op = "GetTransactionStatus" =>
        /\ \A s \in DOMAIN observersResponses : Len(observersResponses[s]) <= 1
        /\ \A i, j \in 1..Len(calls) :
              ( /\ i < j
                /\ calls[i].observer.ShardId = calls[j].observer.ShardId )
              => calls[i].reply.err # Nil

\* C22: GetTransaction goes on to the next observer when the call to an
\* observer fails with a transport error, and returns the reply of the first
\* observer that answers, after which no observer is contacted.
C22_FirstAnswerReturned ==
    op = "GetTransaction" =>
        \A i \in 1..Len(calls) :
            /\ calls[i].observer = observers[i]
            /\ (calls[i].reply.err # Nil /\ i < Len(observers)) => ~ReturnedAfter(i)
            /\ (calls[i].reply.err = Nil /\ calls[i].reply.code = StatusOK) =>
                  /\ ReturnedAfter(i)
                  /\ ret = [tx |-> calls[i].reply.body, err |-> Nil]

\* the first observer failed and the second one had the transaction
C22_Witness ==
    /\ op = "GetTransaction"
    /\ pc = "done"
    /\ Len(calls) = 2
    /\ calls[1].reply.err # Nil
    /\ calls[2].reply.code = StatusOK
    /\ ret = [tx |-> calls[2].reply.body, err |-> Nil]

\* C23: GetTransaction, when an observer of a shard answers without a
\* transport error but with a status other than 200 and no transaction: the
\* remaining observers of that shard are not contacted in that call.
C23_NotFoundEndsShard ==
    op = "GetTransaction" =>
        \A i \in 1..Len(calls) :
            (calls[i].reply.err = Nil /\ calls[i].reply.code # StatusOK) =>
                \A j \in 1..Len(calls) :
                    calls[j].observer.ShardId = calls[i].observer.ShardId => j <= i

\* the first of two observers of one shard answered 500 without an error
C23_Witness ==
    /\ op = "GetTransaction"
    /\ pc = "done"
    /\ Len(observers) = 2
    /\ observers[1].ShardId = observers[2].ShardId
    /\ Len(calls) = 1
    /\ calls[1].reply.err = Nil
    /\ calls[1].reply.code = StatusInternalServerError

\* C24: GetTransaction returns a transaction and no error, or no
\* transaction and an error; never no transaction and no error, whatever
\* the list of observers, the empty one included.
C24_TransactionOrError ==
    (op = "GetTransaction" /\ pc = "done") =>
        \/ ret.tx # NilResponse /\ ret.err = Nil
        \/ ret.tx = NilResponse /\ ret.err # Nil

\* the hashes of a sequence of smart-contract results
HashesOf(scrs) == {scrs[i].Hash : i \in 1..Len(scrs)}

MempoolEntryPoints == ShardPoolEntryPoints \cup {"GetTransactionsPool"}

\* C26: with the mempool flag disabled every mempool entry point returns
\* ErrOperationNotAllowed with no result and makes no upstream call.
C26_FlagGatesMempool ==
    (op \in MempoolEntryPoints /\ ~allowEntireTxPoolFetch) =>
        /\ pc = "done"
        /\ ret.err = ErrOperationNotAllowed
        /\ IF op = "GetLastPoolNonceForSender"
           THEN ret.result = 0
           ELSE ret.result = NilResult
        /\ calls = <<>>
        /\ lookups = <<>>

\* a per-sender call was refused
C26_Witness ==
    /\ ~allowEntireTxPoolFetch
    /\ op = "GetTransactionsPoolNonceGapsForSender"
    /\ pc = "done"
    /\ ret = [result |-> NilResult, err |-> ErrOperationNotAllowed]

\* the items of a sequence
ItemsOf(seq) == {seq[k] : k \in 1..Len(seq)}

\* the number of items of a category in the replies of cs that answered
RECURSIVE AnsweredCount(_, _)
AnsweredCount(cs, category) ==
    IF cs = <<>> THEN 0
    ELSE (IF ReplyOK(Head(cs).reply) THEN Len(Head(cs).reply.pool[category]) ELSE 0)
         + AnsweredCount(Tail(cs), category)

\* C27: GetTransactionsPool returns in each category exactly the items of
\* the replies of the shards that answered, in whatever order the tasks of
\* the shards finish; a shard that fails adds nothing and does not end the
\* call; an empty view gives ErrTransactionsNotFoundInPool and no result.
C27_PoolIsUnionOfReplies ==
    (op = "GetTransactionsPool" /\ pc = "done" /\ allowEntireTxPoolFetch) =>
        /\ {calls[i].observer.ShardId : i \in 1..Len(calls)} = ShardIDs
        /\ Len(calls) = Cardinality(ShardIDs)
        /\ IF \A c \in {"regular", "scrs", "rewards"} : AnsweredCount(calls, c) = 0
           THEN ret = [result |-> NilResult, err |-> ErrTransactionsNotFoundInPool]
           ELSE /\ ret.err = Nil
                /\ \A c \in {"regular", "scrs", "rewards"} :
                      /\ Len(ret.result[c]) = AnsweredCount(calls, c)
                      /\ ItemsOf(ret.result[c]) =
                            UNION {ItemsOf(calls[i].reply.pool[c]) :
                                     i \in {j \in 1..Len(calls) :
                                               ReplyOK(calls[j].reply)}}

\* the task of shard 1 finished before that of shard 0, a third shard
\* failed, and both pools are in the view
C27_Witness ==
    /\ op = "GetTransactionsPool"
    /\ pc = "done"
    /\ \E i, j, k \in 1..Len(calls) :
          /\ i < j
          /\ calls[i].observer.ShardId = 1 /\ ReplyOK(calls[i].reply)
          /\ calls[j].observer.ShardId = 0 /\ ReplyOK(calls[j].reply)
          /\ ~ReplyOK(calls[k].reply)
    /\ ret.err = Nil
    /\ Len(ret.result.regular) = 2
    /\ Len(ret.result.rewards) = 2

\* C28: GetAuctionList contacts only observers of the metachain, in the
\* order of the pool, and returns the data of the first observer whose call
\* succeeds, contacting none after it; when every one of them fails it
\* returns ErrAuctionListNotAvailable, and when the lookup of the observers
\* fails it returns the error of the lookup and has called no observer.
C28_FirstMetachainObserverWins ==
    op = "GetAuctionList" =>
        /\ Len(lookups) = 1
        /\ lookups[1].shard = MetachainShardId
        /\ lookups[1].err # Nil =>
              /\ pc = "done"
              /\ ret = [data |-> NilResult, err |-> lookups[1].err]
              /\ calls = <<>>
        /\ Len(calls) <= Len(lookups[1].observers)
        /\ \A i \in 1..Len(calls) :
              /\ calls[i].observer = lookups[1].observers[i]
              /\ calls[i].observer.ShardId = MetachainShardId
              /\ calls[i].path = auctionListPath
              /\ calls[i].reply.err = Nil =>
                    /\ ReturnedAfter(i)
                    /\ ret.err = Nil
                    /\ \A f \in DOMAIN calls[i].reply.data :
                          ret.data[f] = calls[i].reply.data[f]
        /\ ( /\ pc = "done"
             /\ lookups[1].err = Nil
             /\ \A i \in 1..Len(calls) : calls[i].reply.err # Nil )
           => /\ Len(calls) = Len(lookups[1].observers)
              /\ ret = [data |-> NilResult, err |-> ErrAuctionListNotAvailable]

\* the first metachain observer failed and the second one gave the list
C28_Witness ==
    /\ op = "GetAuctionList"
    /\ pc = "done"
    /\ Len(calls) = 2
    /\ calls[1].reply.err # Nil
    /\ calls[2].reply.err = Nil
    /\ calls[2].reply.data = [f \in AuctionFields |-> "LIST2"]
    /\ ret = [data |-> calls[2].reply.data, err |-> Nil]

\* the chunks, each after an "@"
RECURSIVE JoinChunks(_)
JoinChunks(chunks) ==
    IF chunks = <<>>
    THEN <<>>
    ELSE <<"@">> \o chunks[1] \o JoinChunks(SubSeq(chunks, 2, Len(chunks)))

\* "@" + the status word in hex + the chunks
ReturnData(word, values) ==
    JoinChunks(<<HexEncodeToString(Bytes(word))>> \o values)

\* the chunk lists the data fields carry
ValueLists ==
    UNION {[1..n -> {<<"0", "3">>, <<"0", "7">>}] : n \in 0..2}

\* the data field is "@" + the status word in hex + the chunks
IsReturnData(data, word, values) ==
    /\ Len(data) = 1 + 2 * Len(word) + Len(JoinChunks(values))
    /\ data = ReturnData(word, values)

\* the contract result begins with "@"
Marked(scr) == scr.Data # <<>> /\ scr.Data[1] = "@"

HasEvent(identifier) ==
    \E i \in 1..Len(txResult.Events) :
        txResult.Events[i].Identifier = identifier

\* a writeLog event whose first topic is one of the topics
HasWriteLog(topics) ==
    \E i \in 1..Len(txResult.Events) :
        /\ txResult.Events[i].Identifier = writeLog
        /\ txResult.Events[i].Topics[1] \in topics

\* C29: the rules of the outcome parser are tried in the order return data
\* of a contract result, signalError event, writeLog of the sender, writeLog
\* with the too-much-gas warning, and the first that matches decides: the
\* first contract result whose data is "@" + status in hex + chunks gives
\* that status as ReturnCode, the chunks as Values and its own
\* ReturnMessage, whatever the events are; without such a result a
\* signalError event gives UserError; without that a writeLog of the sender
\* gives Ok and no message; without that the warning gives Ok and the
\* warning as message.
C29_FirstRuleDecides ==
    op = "ParseResultOutcome" =>
        LET results == txResult.ScResults
            outcome == ret.outcome
        IN  /\ ret.err = Nil
            /\ \A i \in 1..Len(results) :
                  ( /\ Marked(results[i])
                    /\ \A j \in 1..(i - 1) : ~Marked(results[j]) )
                  => \A k \in 1..Len(StatusWords), values \in ValueLists :
                        IsReturnData(results[i].Data, StatusWords[k].word, values)
                        => outcome =
                             <<[ReturnCode |-> StatusWords[k].code,
                                ReturnMessage |-> Bytes(results[i].ReturnMessage),
                                Values |-> values]>>
            /\ (\A i \in 1..Len(results) : ~Marked(results[i])) =>
                  /\ HasEvent(signalError) =>
                        Len(outcome) = 1 /\ outcome[1].ReturnCode = UserError
                  /\ (~HasEvent(signalError)
                      /\ HasWriteLog({txResult.Sender, AliceBase64})) =>
                        /\ Len(outcome) = 1
                        /\ outcome[1].ReturnCode = Ok
                        /\ outcome[1].ReturnMessage = <<>>
                  /\ ( /\ ~HasEvent(signalError)
                       /\ ~HasWriteLog({txResult.Sender, AliceBase64})
                       /\ HasWriteLog({TooMuchGasWarning}) ) =>
                        /\ Len(outcome) = 1
                        /\ outcome[1].ReturnCode = Ok
                        /\ outcome[1].ReturnMessage = Bytes(TooMuchGasWarning)

\* "@6f6b@03" with the message "foobar" in a contract result, after a
\* signalError event and a writeLog event of the sender in the logs
C29_Witness ==
    /\ op = "ParseResultOutcome"
    /\ Len(txResult.ScResults) = 1
    /\ txResult.ScResults[1] = [Data |-> DataOk03, ReturnMessage |-> Foobar]
    /\ HasEvent(signalError)
    /\ HasWriteLog({Alice})
    /\ ret.outcome = <<[ReturnCode |-> Ok,
                        ReturnMessage |-> Bytes(Foobar),
                        Values |-> <<<<"0", "3">>>>]>>

\* C30: when the signalError rule decides, the ReturnCode is UserError
\* whatever status token the data of the event carries, the ReturnMessage is
\* the first topic of the event and the Values are the chunks of the data
\* after the status token; "@75736572206572726f72@07" gives the Values
\* <<"07">>.
C30_SignalErrorIsUserError ==
    ( /\ op = "ParseResultOutcome"
      /\ \A i \in 1..Len(txResult.ScResults) : ~Marked(txResult.ScResults[i])
      /\ HasEvent(signalError) )
    => LET i == CHOOSE k \in 1..Len(txResult.Events) :
                  /\ txResult.Events[k].Identifier = signalError
                  /\ \A j \in 1..(k - 1) :
                        txResult.Events[j].Identifier # signalError
           event == txResult.Events[i]
           outcome == ret.outcome
       IN  /\ Len(outcome) = 1
           /\ outcome[1].ReturnCode = UserError
           /\ event.Topics[1] = SomethingHappened =>
                 outcome[1].ReturnMessage = Bytes(SomethingHappened)
           /\ event.Topics[1] = OopsBase64 =>
                 outcome[1].ReturnMessage = Bytes(Oops)
           /\ \A k \in 1..Len(StatusWords), values \in ValueLists :
                 IsReturnData(event.Data, StatusWords[k].word, values) =>
                    outcome[1].Values = values
           /\ event.Data = DataUserError07 =>
                 outcome[1].Values = <<<<"0", "7">>>>

\* a signalError event whose data carries the status token of "ok"
C30_Witness ==
    /\ op = "ParseResultOutcome"
    /\ txResult.ScResults = <<>>
    /\ Len(txResult.Events) = 2
    /\ txResult.Events[1].Identifier = writeLog
    /\ txResult.Events[2] = [Identifier |-> signalError,
                             Topics |-> <<SomethingHappened>>,
                             Data |-> DataOk03]
    /\ ret.outcome = <<[ReturnCode |-> UserError,
                        ReturnMessage |-> Bytes(SomethingHappened),
                        Values |-> <<<<"0", "3">>>>]>>

\* C31: when neither a contract result with return data nor a signalError
\* event is there, a writeLog event whose first topic is the sender, as it
\* is or in base64, gives the ReturnCode Ok and an empty message; without
\* such an event a writeLog event with the too-much-gas warning gives Ok,
\* the warning as ReturnMessage and no Values, whatever chunks its data
\* holds; and when no rule matches the outcome is null and the error nil.
C31_WriteLogRulesAndNoMatch ==
    ( /\ op = "ParseResultOutcome"
      /\ \A i \in 1..Len(txResult.ScResults) : ~Marked(txResult.ScResults[i])
      /\ ~HasEvent(signalError) )
    => LET outcome == ret.outcome
           ofSender == HasWriteLog({txResult.Sender, AliceBase64})
           warning == HasWriteLog({TooMuchGasWarning})
       IN  /\ ret.err = Nil
           /\ ofSender =>
                 /\ Len(outcome) = 1
                 /\ outcome[1].ReturnCode = Ok
                 /\ outcome[1].ReturnMessage = <<>>
           /\ (~ofSender /\ warning) =>
                 outcome = <<[ReturnCode |-> Ok,
                              ReturnMessage |-> Bytes(TooMuchGasWarning),
                              Values |-> <<>>]>>
           /\ (~ofSender /\ ~warning) => outcome = <<>>

\* the sender in base64 as the first topic of a writeLog event, after an
\* event that no rule matches
C31_Witness ==
    /\ op = "ParseResultOutcome"
    /\ txResult.ScResults = <<[Data |-> DataPlain, ReturnMessage |-> <<>>]>>
    /\ Len(txResult.Events) = 2
    /\ txResult.Events[1] = [Identifier |-> writeLog,
                             Topics |-> <<SomethingHappened>>,
                             Data |-> DataOk]
    /\ txResult.Events[2] = [Identifier |-> writeLog,
                             Topics |-> <<AliceBase64>>,
                             Data |-> DataOkPadded]
    /\ ret.outcome = <<[ReturnCode |-> Ok,
                        ReturnMessage |-> <<>>,
                        Values |-> <<>>]>>

\* the calls made to the observers of a shard that gave a result
SimulatedBy(shard) ==
    {i \in 1..Len(calls) :
        calls[i].observer.ShardId = shard /\ ReplyOK(calls[i].reply)}

\* C32: a simulation whose sender and receiver are in one shard returns the
\* single-shard result of an observer of that shard; one whose shards
\* differ returns, in every order of the calls, a result with the two
\* entries "senderShard" and "receiverShard", each holding the status and
\* the fail reason the observer of its own shard gave, and a shard that
\* failed leaves the entry of the other shard in place.
C32_EntryPerShard ==
    ( /\ op = "SimulateTransaction"
      /\ pc = "done"
      /\ checkTransactionFields(tx) = Nil
      /\ SenderShard(tx).ok /\ ShardOfReceiver(tx).ok )
    => LET snd == SenderShard(tx).shard
           rcv == ShardOfReceiver(tx).shard
           shardOf(role) == IF role = "senderShard" THEN snd ELSE rcv
       IN  IF snd = rcv
           THEN /\ \A i \in 1..Len(calls) : calls[i].observer.ShardId = snd
                /\ ret.err = Nil =>
                      /\ ret.data.kind = "singleShard"
                      /\ \E i \in SimulatedBy(snd) :
                            ret.data.Result = calls[i].reply.result[1]
                /\ SimulatedBy(snd) # {} => ret.err = Nil
           ELSE /\ ret.err = Nil
                /\ ret.data.kind = "crossShard"
                /\ DOMAIN ret.data.Result = SimulationRoles
                /\ \A role \in SimulationRoles :
                      /\ Cardinality(SimulatedBy(shardOf(role))) <= 1
                      /\ \A i \in SimulatedBy(shardOf(role)) :
                            ret.data.Result[role] = calls[i].reply.result[1]
                      /\ SimulatedBy(shardOf(role)) = {} =>
                            /\ ret.data.Result[role].Status = ""
                            /\ ret.data.Result[role].FailReason # ""

\* the receiver's shard failed before the sender's shard answered "ok"
C32_Witness ==
    /\ op = "SimulateTransaction"
    /\ pc = "done"
    /\ SenderShard(tx).shard # ShardOfReceiver(tx).shard
    /\ Len(calls) = 2
    /\ calls[1].observer.ShardId = ShardOfReceiver(tx).shard
    /\ calls[1].reply.code = StatusBadRequest
    /\ calls[2].observer.ShardId = SenderShard(tx).shard
    /\ calls[2].reply.result = <<[Status |-> "ok", FailReason |-> ""]>>
    /\ ret.data.Result["senderShard"] = [Status |-> "ok", FailReason |-> ""]
    /\ ret.data.Result["receiverShard"].FailReason = ErrUpstream

\* C33: GetValueForKey answers a request with an empty key with the status
\* 400 and the error ErrEmptyKey, and a request with an empty address with
\* 400 and ErrEmptyAddress, and calls the facade for neither.
C33_EmptyKeyRefused ==
    (op = "GetValueForKey" /\ request.facade) =>
        /\ request.address = "" =>
              /\ ret = JSON(StatusBadRequest, "error",
                            ValueForKeyError(ErrEmptyAddress))
              /\ calls = <<>>
        /\ (request.address # "" /\ request.key = "") =>
              /\ ret = JSON(StatusBadRequest, "error",
                            ValueForKeyError(ErrEmptyKey))
              /\ calls = <<>>

\* C34: a failed call carries an error: SendTransaction never returns a
\* status other than 200 with a nil error, and TransactionCostRequest never
\* returns an empty cost with a nil error, also when the observer answered a
\* status such as 400 without a transport error.
C34_FailureCarriesError ==
    pc = "done" =>
        /\ (op = "SendTransaction" /\ ret.status # StatusOK) => ret.err # Nil
        /\ (op = "TransactionCostRequest" /\ ret.cost = <<>>) => ret.err # Nil

\* a reply that is a failure of the request itself: no good reply, no
\* observer that is down, no transport error
AuthoritativeFailure(r) ==
    /\ r.code \notin {StatusOK, StatusNotFound, StatusRequestTimeout}
    /\ r.err = Nil

\* C35: SendMultipleTransactions, once an observer of a shard answered the
\* batch with an authoritative failure, sends the batch to no later
\* observer of that shard.
C35_FailureEndsShard ==
    op = "SendMultipleTransactions" =>
        \A s \in ShardIDs :
            \A i \in 1..Len(CallsOfShard(s)) :
                AuthoritativeFailure(CallsOfShard(s)[i].reply)
                => i = Len(CallsOfShard(s))

\* C36: on every return of SendMultipleTransactions the count returned is
\* the sum of numOfTxs over the batches that observers accepted during the
\* call; so no batch was accepted when the call returns ErrMissingObserver.
C36_CountIsAcceptedSum ==
    (op = "SendMultipleTransactions" /\ pc = "done") =>
        /\ ret.numOfTxs = AcceptedSum(calls)
        /\ ret.err = ErrMissingObserver =>
              \A i \in 1..Len(calls) : ~ReplyOK(calls[i].reply)

\* C37: the auction list GetAuctionList returns holds what was decoded from
\* the reply of the observer whose call succeeded and nothing else: no
\* field of it was written by the failed call of an earlier observer.
C37_OnlyWinningReplyReturned ==
    (op = "GetAuctionList" /\ pc = "done" /\ ret.err = Nil) =>
        ret.data = calls[Len(calls)].reply.data

\* C38: TransactionCostRequest returns the decimal digits of the txGasUnits
\* the observer sent, for every value of the unsigned type: the string
\* has no sign and denotes the number sent, also from half of the range on.
C38_CostIsDecimalOfUnsigned ==
    (op = "TransactionCostRequest" /\ pc = "done" /\ ret.err = Nil) =>
        /\ ret.cost[1] # "-"
        /\ ret.cost = Digits(calls[Len(calls)].reply.txCost)

\* what the call of a request returns when it runs alone with the lookup
\* and the replies it got
SoloResult(r) ==
    LET chk == checkTransactionFields(r.tx)
        last == r.calls[Len(r.calls)].reply
    IN
    IF chk # Nil
    THEN [status |-> StatusBadRequest, hash |-> "", err |-> chk]
    ELSE IF ~Decode(r.tx.Sender).ok
    THEN [status |-> StatusBadRequest, hash |-> "", err |-> ErrDecode]
    ELSE IF ~SenderShard(r.tx).ok
    THEN [status |-> StatusInternalServerError, hash |-> "",
          err |-> ErrComputeShardId]
    ELSE IF r.lookups[1].err # Nil
    THEN [status |-> StatusInternalServerError, hash |-> "",
          err |-> r.lookups[1].err]
    ELSE IF Len(r.calls) = 0 THEN SendExhausted
    ELSE IF SendVerdict(last) = "success"
    THEN [status |-> last.code, hash |-> last.hash, err |-> Nil]
    ELSE IF SendVerdict(last) = "skip" THEN SendExhausted
    ELSE [status |-> last.code, hash |-> "", err |-> last.err]

\* the observers a request contacted are those of its own lookup, in their
\* order, each after the one before it was skipped
ContactsOwnObservers(r) ==
    /\ Len(r.lookups) = 0 => Len(r.calls) = 0
    /\ \A i \in 1..Len(r.calls) :
          /\ i <= Len(r.lookups[1].observers)
          /\ r.calls[i].observer = r.lookups[1].observers[i]
          /\ r.calls[i].body = r.tx
          /\ r.calls[i].path = TransactionSendPath
          /\ i < Len(r.calls) => SendVerdict(r.calls[i].reply) = "skip"

\* C39: two calls of SendTransaction that run at the same time on one
\* TransactionProcessor do not interfere: in every interleaving each call
\* contacts the observers of its own lookup in their order, reads from its
\* response what its own observer replied, and returns what it returns when
\* it runs alone with the same replies; the state of the single-request
\* processor is never written
C39_RequestsDoNotInterfere ==
    /\ pc = "idle" /\ calls = <<>> /\ lookups = <<>> /\ observers = <<>>
    /\ \A id \in RequestIds :
          LET r == running[id] IN
          /\ ContactsOwnObservers(r)
          /\ r.pc = "posted" =>
                txResponses[id] = r.calls[Len(r.calls)].reply.hash
          /\ r.pc = "done" => r.ret = SoloResult(r)

\* request B posted its only call between the only call of request A and
\* the decision of A, the two observers accepted with different hashes,
\* and A returned its own
C39_Witness ==
    /\ running["A"].pc = "done"
    /\ Len(running["A"].calls) = 1 /\ Len(running["B"].calls) = 1
    /\ running["B"].overlapped
    /\ running["A"].ret = [status |-> StatusOK, hash |-> "HASH1", err |-> Nil]
    /\ running["B"].calls[1].reply.hash = "HASH2"
    /\ running["B"].pc = "done"
    /\ running["B"].ret.hash = "HASH2"

VmValueHandlers ==
    {"GetVmValueAsHexBytes", "GetVmValueAsString", "GetVmValueAsBigInt"}

\* C40: a vm-values handler answers 200 only with a data body; an error
\* body comes with 500 for a wrong facade and with 400 for a body that does
\* not bind, an argument that is no hex string, an error of the facade, and
\* data that GetVmValueAsBigInt cannot read as a decimal integer; a request
\* with an argument that is no hex string does not reach the facade
C40_ErrorBodyNeverWith200 ==
    (pc = "done" /\ op \in VmValueHandlers) =>
        /\ ret.status = StatusOK <=> ret.body[1] = "data"
        /\ ret.body[1] = "error" =>
              ret.status = IF request.facade THEN StatusBadRequest
                           ELSE StatusInternalServerError
        /\ (\E i \in 1..Len(request.Args) :
               ~HexDecodeString(request.Args[i]).ok) => calls = <<>>
        /\ (op = "GetVmValueAsBigInt" /\ calls # <<>>
            /\ calls[1].reply.err = Nil
            /\ ~SetString(calls[1].reply.data).ok) =>
              ret.status # StatusOK /\ ret.body[1] = "error"

====
